---- MODULE Spec2Model ----
(***************************************************************************)
(* Model of lifesospy_mqtt.translator.Translator: the router loop          *)
(* (async_loop), its shutdown path (signal_shutdown, async_stop), the      *)
(* broker callback that feeds the queue (_mqtt_on_message), the inbound    *)
(* handlers, the auto-reset timers of Trigger devices and the derivation   *)
(* of the Home Assistant alarm state from the base unit's state.           *)
(*                                                                         *)
(* Execution contexts.  The coroutine async_loop and every callback of the *)
(* adapter and of loop.call_later run on the asyncio event loop: a         *)
(* callback runs only while the coroutine is suspended at an await.  The   *)
(* broker client's network thread (_mqtt_on_message) and the Python signal *)
(* handler (signal_shutdown) are not scheduled by the event loop and may   *)
(* act between any two steps of the coroutine.                             *)
(***************************************************************************)
EXTENDS Integers, Sequences, FiniteSets, TLC

\* ------------------------------------------------------------ bounds
MaxMsgs == 2
MaxSignals == 1
MaxTriggers == 3
MaxChanges == 3
MaxEvents == 2
MaxClock == 3

\* ------------------------------------------------- program constants
\* Translator.AUTO_RESET_INTERVAL
AUTO_RESET_INTERVAL == 30
\* Queue(): janus' default maxsize, 0 = unbounded
QueueMaxSize == 0

\* ------------------------------------------------------------ topics
BaseTopic == "home/alarm"
IsConnectedTopic == "home/alarm/is_connected"
HaStateTopic == "home/alarm/ha_state"
ClearStatusTopic == "home/alarm/clear_status"
DatetimeSetTopic == "home/alarm/datetime/set"
OperationModeSetTopic == "home/alarm/operation_mode/set"
UnsubscribedTopic == "home/other"

\* Translator.STATE_*
STATE_ARMED_AWAY == "armed_away"
STATE_ARMED_HOME == "armed_home"
STATE_DISARMED == "disarmed"
STATE_PENDING == "pending"
STATE_TRIGGERED == "triggered"

\* The adapter's devices and self._config.translator.devices: devices 1
\* and 2 have an entry with a topic, device 3 has no entry.
DeviceIds == {1, 2, 3}
ConfiguredIds == {1, 2}
devices_config ==
  [d \in ConfiguredIds |->
     IF d = 1 THEN [topic |-> "home/pir"] ELSE [topic |-> "home/smoke"]]

\* device_config and device_config.topic
HasTopic(d) == d \in DOMAIN devices_config /\ devices_config[d].topic # ""

EventCodes == {"Trigger", "Tamper", "BatteryLow", "Open"}

\* The types the adapter reports for a device: device 2 is a smoke detector
\* or, in another installation, a remote controller.
DeviceTypes ==
  [d \in DeviceIds |->
     IF d = 1 THEN {"PIRSensor"}
     ELSE IF d = 2 THEN {"SmokeDetector", "RemoteController"}
     ELSE {"DoorMagnet"}]

\* TranslatorConfig: the settings read with settings.get(), absent ones
\* being None ("" here, FALSE for a device_info block, <<>> for an
\* auto_reset_interval, which is <<n>> when configured as n).  Device 1
\* configures an auto_reset_interval, device 2 configures none.
BirthTopic == "homeassistant/status"
BirthPayload == "online"
DiscoveryPrefix == "homeassistant"

BasicConfig ==
  [discovery_prefix |-> "", birth_topic |-> "", birth_payload |-> "",
   baseunit_device_info |-> TRUE,
   device_info |-> [d \in ConfiguredIds |-> TRUE],
   auto_reset_interval |->
     [d \in ConfiguredIds |-> IF d = 1 THEN <<2>> ELSE <<>>]]

\* The same with device 2 configuring an auto_reset_interval of 0.
ZeroIntervalConfig ==
  [BasicConfig EXCEPT !.auto_reset_interval[2] = <<0>>]

\* Discovery and the birth topic configured, every device_info block given.
FullConfig ==
  [BasicConfig EXCEPT !.discovery_prefix = DiscoveryPrefix,
                      !.birth_topic = BirthTopic,
                      !.birth_payload = BirthPayload]

\* The same with no device_info block for the base unit, or for device 2.
NoBaseunitInfoConfig == [FullConfig EXCEPT !.baseunit_device_info = FALSE]
NoDeviceInfoConfig ==
  [FullConfig EXCEPT !.device_info = [d \in ConfiguredIds |-> d # 2]]

Configs ==
  { BasicConfig,
    [BasicConfig EXCEPT !.birth_topic = BirthTopic,
                        !.birth_payload = BirthPayload],
    [BasicConfig EXCEPT !.discovery_prefix = DiscoveryPrefix],
    FullConfig, NoBaseunitInfoConfig, NoDeviceInfoConfig }

\* ---------------------------------------------------------- messages
\* The None item that signal_shutdown puts on the queue.
NoneMsg == [id |-> 0, topic |-> "None", payload |-> ""]

\* The (topic, payload) pairs the broker delivers.
MsgInputs ==
  { [topic |-> ClearStatusTopic, payload |-> ""],
    [topic |-> DatetimeSetTopic, payload |-> "not a date"],
    [topic |-> OperationModeSetTopic, payload |-> "Disarm"],
    [topic |-> UnsubscribedTopic, payload |-> "x"] }

\* An external call made by a step: a publish, an adapter command, an
\* exception raised to the caller.
Pub(topic, payload, retain) ==
  [kind |-> "publish", topic |-> topic, payload |-> payload, retain |-> retain]
Cmd(name, arg) ==
  [kind |-> "command", topic |-> name, payload |-> arg, retain |-> FALSE]
Raise(what) ==
  [kind |-> "raise", topic |-> what, payload |-> "", retain |-> FALSE]

NoTask == [state |-> "none", must_cancel |-> FALSE, result |-> NoneMsg]

VARIABLES
  shutdown,          \* self._shutdown
  pc,                \* position of the coroutines async_start/loop/stop
  get_task,          \* self._get_task and the state of that task
  pending_messages,  \* self._pending_messages: the queue's items
  unfinished,        \* the queue's unfinished-task count
  message,           \* async_loop's local `message`
  wakeup,            \* the event loop was woken while the get task blocks
  state,             \* self._state
  ha_state,          \* self._ha_state
  auto_reset_handles,\* self._auto_reset_handles: device id -> timer id, 0 = no entry
  timers,            \* the event loop's armed call_later timers
  out,               \* the external calls of the last step, in call order
  nEnq,              \* history: messages the broker callback enqueued
  nSig,              \* history: signals delivered
  dispatched,        \* history: the items the loop dispatched, in order
  atShutdown,        \* history: ids queued when shutdown was first requested
  sigAt,             \* history: where the loop was at that moment
  finalPubs,         \* history: what the loop published on leaving
  nTrig,             \* history: Trigger events handled (the timer ids)
  rearmed,           \* history: the device's last Trigger replaced a pending timer
  sinceTrigger,      \* history: time since the device's last Trigger, capped
  nOff,              \* history: auto-reset Off publishes since that Trigger
  stateLog,          \* history: the base unit's `state` changes, in order
  haLog,             \* history: the payloads they published on ha_state
  config,            \* self._config.translator: the optional settings
  devices,           \* self._baseunit.devices: device id -> type, or "absent"
  is_connected,      \* self._baseunit.is_connected
  baseunit_state,    \* the state the base unit is in
  mqtt_was_connected,      \* self._mqtt_was_connected
  mqtt_last_connection,    \* self._mqtt_last_connection, -1 = None
  mqtt_last_disconnection, \* self._mqtt_last_disconnection, -1 = None
  now,               \* what datetime.now() reads
  outage,            \* the outage the last accepted connect logged, <<>> = none
  droppedAt,         \* history: the time of the last disconnect, -1 = none
  ha_run,            \* the call of _publish_ha_config in progress
  runLog,            \* history: the last call of _publish_ha_config
  link,              \* the broker client's connection: "up" or "down"
  nEv,               \* history: base unit events reported
  commands,          \* the ids of the messages whose adapter command, a task
                     \* made with loop.create_task, has not completed
  acted,             \* history: the device callback that ran last
  reported,          \* history: the property change a device just reported
  last_result_code,  \* history: the result code the last step's broker
                     \* callback (connect, disconnect) was given, -1 = none
  thread             \* history: the context of the last step: "core" (the
                     \* event loop's thread), "broker" (the client's network
                     \* thread), "signal" (the handler) or "clock"

vars == <<shutdown, pc, get_task, pending_messages, unfinished, message,
          wakeup, state, ha_state, auto_reset_handles, timers, out, nEnq,
          nSig, dispatched, atShutdown, sigAt, finalPubs, nTrig, rearmed,
          sinceTrigger, nOff, stateLog, haLog, config, devices,
          is_connected, baseunit_state, mqtt_was_connected, mqtt_last_connection,
          mqtt_last_disconnection, now, outage, droppedAt, ha_run, runLog,
          link, nEv, commands, acted, thread, reported, last_result_code>>

\* Groups of variables an action leaves alone.
QueueState == <<pending_messages, unfinished>>
TimerState == <<auto_reset_handles, timers>>
TimerHistory == <<nTrig, rearmed, sinceTrigger, nOff>>
StateHistory == <<stateLog, haLog>>
Translation == <<state, ha_state>>
AdapterState == <<devices, is_connected, baseunit_state>>
BrokerState == <<mqtt_was_connected, mqtt_last_connection,
                 mqtt_last_disconnection, now, outage, droppedAt, link>>
DiscoveryState == <<ha_run, runLog>>

\* ---------------------------------------------------------- registry
\* self._subscribetopics, in the order __init__ appends them; the birth
\* topic only when one is configured.
subscribetopics ==
  << [topic |-> ClearStatusTopic, on_message |-> "on_message_clear_status"],
     [topic |-> DatetimeSetTopic, on_message |-> "on_message_set_datetime"],
     [topic |-> OperationModeSetTopic, on_message |-> "on_message_baseunit"] >>
  \o (IF config.birth_topic # ""
      THEN << [topic |-> config.birth_topic, on_message |-> "on_message"] >>
      ELSE << >>)

\* self._subscribetopics_lookup = {st.topic: st for st in self._subscribetopics}
subscribetopics_lookup ==
  [t \in {subscribetopics[i].topic : i \in 1..Len(subscribetopics)} |->
     (CHOOSE st \in {subscribetopics[i] : i \in 1..Len(subscribetopics)} :
        st.topic = t).on_message]

\* ------------------------------------------------------------- queue
\* sync_q.put_nowait: raises Full, and adds nothing, only when the queue
\* has a maximum size and holds that many items.
PutNowaitFullAtOne(q) == Len(q) >= 1
PutNowaitFull(q) == QueueMaxSize > 0 /\ Len(q) >= QueueMaxSize
PutNowait(q, item) == IF PutNowaitFull(q) THEN q ELSE Append(q, item)

\* async_q.get() on a non-empty queue: the item at the head, and the items
\* it leaves.
GetLast(q) == [item |-> q[Len(q)], rest |-> SubSeq(q, 1, Len(q) - 1)]
Get(q) == [item |-> Head(q), rest |-> Tail(q)]

\* ---------------------------------------------------------- publishes
\* The if/elif chain of _publish_baseunit_property: the derived state after
\* a `state` change to value, old being the derived state before it.
HaStateOfNoMonitor(value, old) ==
  IF value = "Disarm" THEN STATE_DISARMED
  ELSE IF value \in {"Home", "Monitor"} THEN STATE_ARMED_HOME
  ELSE IF value = "Away" THEN STATE_ARMED_AWAY
  ELSE IF value \in {"AwayExitDelay", "AwayEntryDelay"} THEN STATE_PENDING
  ELSE old

HaStateOf(value, old) ==
  IF value \in {"Disarm", "Monitor"} THEN STATE_DISARMED
  ELSE IF value = "Home" THEN STATE_ARMED_HOME
  ELSE IF value = "Away" THEN STATE_ARMED_AWAY
  ELSE IF value \in {"AwayExitDelay", "AwayEntryDelay"} THEN STATE_PENDING
  ELSE old

\* The branches of that chain that publish on ha_state.
PublishesNoHaState(value) == FALSE
PublishesHaState(value) ==
  \/ value \in {"Disarm", "Monitor"}
  \/ value = "Home"
  \/ value = "Away"
  \/ value \in {"AwayExitDelay", "AwayEntryDelay"}

BaseunitPublishedProps ==
  {"is_connected", "rom_version", "exit_delay", "entry_delay",
   "operation_mode"}

\* _publish_baseunit_property(name, value): the publishes it makes.
publish_baseunit_property(name, value) ==
  IF name = "state"
  THEN <<Pub(BaseTopic, value, TRUE)>> \o
       (IF PublishesHaState(value)
        THEN <<Pub(HaStateTopic, HaStateOf(value, ha_state), TRUE)>>
        ELSE <<>>)
  ELSE IF name \in BaseunitPublishedProps
  THEN <<Pub(BaseTopic \o "/" \o name, value, TRUE)>>
  ELSE <<>>

\* The payloads of the publishes on ha_state among a step's calls.
RECURSIVE HaPayloads(_)
HaPayloads(calls) ==
  IF calls = <<>> THEN <<>>
  ELSE (IF Head(calls).kind = "publish" /\ Head(calls).topic = HaStateTopic
        THEN <<Head(calls).payload>> ELSE <<>>) \o HaPayloads(Tail(calls))

\* ----------------------------------------------------------- handlers
\* OperationMode.parse_name and dateutil.parser.parse: the payloads they
\* accept.
OperationModeNames == {"Disarm", "Home", "Away", "Monitor"}
ParseableDates == {"2020-01-01 00:00:00"}

\* dateutil.parser.parse(value) raises for a value that is no timestamp.
ParseRaisesNever(value) == FALSE
ParseRaises(value) == value \notin ParseableDates

\* Each handler gives [raised, out, ha_state]: whether it raised, its
\* external calls and the derived state it leaves.
on_message_clear_status(m) ==
  [raised |-> FALSE, out |-> <<Cmd("async_clear_status", "")>>,
   ha_state |-> ha_state]

on_message_set_datetime(m) ==
  IF m.payload = ""
  THEN [raised |-> FALSE, out |-> <<Cmd("async_set_datetime", "None")>>,
        ha_state |-> ha_state]
  ELSE IF ~ParseRaises(m.payload)
  THEN [raised |-> FALSE, out |-> <<Cmd("async_set_datetime", m.payload)>>,
        ha_state |-> ha_state]
  ELSE [raised |-> TRUE, out |-> <<>>, ha_state |-> ha_state]

\* The special case of _on_message_baseunit: the mode asked for, the raw
\* state and the derived state.
ReconcilesWhenTriggered(mode) ==
  mode = "Disarm" /\ ha_state = STATE_TRIGGERED
Reconciles(mode) ==
  mode = "Disarm" /\ state = "Disarm" /\ ha_state = STATE_TRIGGERED

on_message_baseunit(m) ==
  IF m.payload \notin OperationModeNames
  THEN [raised |-> FALSE, out |-> <<>>, ha_state |-> ha_state]
  ELSE IF Reconciles(m.payload)
  THEN [raised |-> FALSE,
        out |-> <<Pub(HaStateTopic, STATE_DISARMED, TRUE),
                  Cmd("async_set_operation_mode", m.payload)>>,
        ha_state |-> STATE_DISARMED]
  ELSE [raised |-> FALSE,
        out |-> <<Cmd("async_set_operation_mode", m.payload)>>,
        ha_state |-> ha_state]

\* _on_message, the handler of the birth topic: whether the payload makes
\* it call _publish_ha_config.
BirthAnyPayload(payload) == payload # ""
BirthMatches(payload) == payload # "" /\ payload = config.birth_payload

\* ---------------------------------------------------------- discovery
\* '{:06x}'.format(n) and str(n)
HexDigit(n) ==
  <<"0", "1", "2", "3", "4", "5", "6", "7", "8", "9", "a", "b", "c", "d",
    "e", "f">>[n + 1]

RECURSIVE Hex(_, _)
Hex(n, width) ==
  IF width = 0 THEN "" ELSE Hex(n \div 16, width - 1) \o HexDigit(n % 16)

RECURSIVE Dec(_)
Dec(n) == IF n < 10 THEN HexDigit(n) ELSE Dec(n \div 10) \o HexDigit(n % 10)

PLATFORM_ALARM_CONTROL_PANEL == "alarm_control_panel"
PLATFORM_BINARY_SENSOR == "binary_sensor"
PLATFORM_SENSOR == "sensor"

\* The publish of a discovery document: json.dumps(message), which the
\* unique_id of the message stands for, on
\* <discovery prefix>/<platform>/<unique_id>/config, not retained.
Doc(platform, unique_id) ==
  Pub(config.discovery_prefix \o "/" \o platform \o "/" \o unique_id
        \o "/config",
      unique_id, FALSE)

\* Each _publish_*_config gives [raised, out].  With no device_info block
\* in the configuration, device_info is None and building the message
\* ({**..., **None}) raises TypeError before anything is published.
publish_baseunit_config ==
  IF config.baseunit_device_info
  THEN [raised |-> FALSE,
        out |-> <<Doc(PLATFORM_ALARM_CONTROL_PANEL, "lifesos_baseunit")>>]
  ELSE [raised |-> TRUE, out |-> <<>>]

\* _add_device_identifiers(device_id, device_config.device_info) raises
\* when the block is absent.
add_device_identifiers_raises(d) == ~config.device_info[d]

\* The device types whose branch of _publish_device_config goes on to the
\* publish; for any other type the method logs a warning and returns.
EveryType == {"SmokeDetector", "DoorMagnet", "PIRSensor", "RemoteController"}
SupportedTypes == {"SmokeDetector", "DoorMagnet", "PIRSensor"}

publish_device_config(d) ==
  IF add_device_identifiers_raises(d) THEN [raised |-> TRUE, out |-> <<>>]
  ELSE IF devices[d] \in SupportedTypes
  THEN [raised |-> FALSE,
        out |-> <<Doc(PLATFORM_BINARY_SENSOR, "lifesos_" \o Hex(d, 6))>>]
  ELSE [raised |-> FALSE, out |-> <<>>]

publish_device_rssi_config(d) ==
  IF add_device_identifiers_raises(d) THEN [raised |-> TRUE, out |-> <<>>]
  ELSE [raised |-> FALSE,
        out |-> <<Doc(PLATFORM_SENSOR, "lifesos_" \o Hex(d, 6) \o "_rssi")>>]

publish_device_battery_config(d) ==
  IF add_device_identifiers_raises(d) THEN [raised |-> TRUE, out |-> <<>>]
  ELSE [raised |-> FALSE,
        out |-> <<Doc(PLATFORM_BINARY_SENSOR,
                      "lifesos_" \o Hex(d, 6) \o "_battery")>>]

\* The three calls made for a device, in order, up to the first that
\* raises.
publish_device_configs(d) ==
  LET a == publish_device_config(d)
      b == publish_device_rssi_config(d)
      c == publish_device_battery_config(d)
  IN IF a.raised THEN a
     ELSE IF b.raised THEN [raised |-> TRUE, out |-> a.out]
     ELSE IF c.raised THEN [raised |-> TRUE, out |-> a.out \o b.out]
     ELSE [raised |-> FALSE, out |-> a.out \o b.out \o c.out]

\* self._config.translator.devices.keys(): the order of the configuration
ConfiguredOrder == <<1, 2>>

NoRun == [active |-> FALSE, todo |-> <<>>, caller |-> "none"]
NoRunLog == [trigger |-> "none", docs |-> <<>>,
             devices |-> [d \in DeviceIds |-> "absent"], end |-> "none"]

\* The record of the step just taken: the device callback it was, or none,
\* and the property change it reported, or none.
NoChange == [name |-> "none", new_value |-> 0]
NoDevice == [name |-> "none", device |-> 0]
Acted(name, d) == [name |-> name, device |-> d]

\* _publish_ha_config up to its first test of self._shutdown: how the call
\* stands after it and what it published.
publish_ha_config_start ==
  IF config.discovery_prefix = "" THEN [end |-> "disabled", out |-> <<>>]
  ELSE IF BaseTopic # "" /\ publish_baseunit_config.raised
  THEN [end |-> "raised", out |-> <<>>]
  ELSE [end |-> IF ConfiguredOrder = <<>> THEN "completed" ELSE "running",
        out |-> IF BaseTopic # "" THEN publish_baseunit_config.out ELSE <<>>]

\* The call as the variables record it.
RunStarted(caller) ==
  IF publish_ha_config_start.end = "running"
  THEN [active |-> TRUE, todo |-> ConfiguredOrder, caller |-> caller]
  ELSE NoRun

RunLogged(caller) ==
  [trigger |-> caller, docs |-> publish_ha_config_start.out,
   devices |-> devices, end |-> publish_ha_config_start.end]

\* `if self._shutdown: return`
RunNeverAborts == FALSE
RunAborts == shutdown

\* `device = self._baseunit.devices.get(device_id)`, `if device:`
DeviceAlwaysExists(d) == TRUE
DeviceExists(d) == devices[d] # "absent"

\* One iteration of the loop over the configured devices.
publish_ha_config_device(d) ==
  IF RunAborts THEN [end |-> "shutdown", out |-> <<>>]
  ELSE IF ~DeviceExists(d) \/ ~HasTopic(d)
  THEN [end |-> "running", out |-> <<>>]
  ELSE [end |-> IF publish_device_configs(d).raised THEN "raised"
                ELSE "running",
        out |-> publish_device_configs(d).out]

\* _on_message(subscribetopic, message): a birth payload calls
\* _publish_ha_config, whose TypeError is the handler's.
on_message_birth(m) ==
  IF BirthMatches(m.payload)
  THEN [raised |-> publish_ha_config_start.end = "raised",
        out |-> publish_ha_config_start.out, ha_state |-> ha_state]
  ELSE [raised |-> FALSE, out |-> <<>>, ha_state |-> ha_state]

\* topic.on_message(topic, message)
on_message(handler, m) ==
  IF handler = "on_message_clear_status" THEN on_message_clear_status(m)
  ELSE IF handler = "on_message_set_datetime" THEN on_message_set_datetime(m)
  ELSE IF handler = "on_message_baseunit" THEN on_message_baseunit(m)
  ELSE on_message_birth(m)

\* ---------------------------------------------------------------- Init
\* The Translator as __init__ leaves it, whatever the configuration.
Constructed ==
  /\ shutdown = FALSE
  /\ pc = "constructed"
  /\ get_task = NoTask
  /\ pending_messages = <<>>
  /\ unfinished = 0
  /\ message = NoneMsg
  /\ wakeup = FALSE
  /\ state = "None"
  /\ ha_state = "None"
  /\ baseunit_state = "Disarm"
  /\ auto_reset_handles = [d \in DeviceIds |-> 0]
  /\ timers = {}
  /\ out = <<>>
  /\ nEnq = 0
  /\ nSig = 0
  /\ dispatched = <<>>
  /\ atShutdown = {}
  /\ sigAt = "never"
  /\ finalPubs = <<>>
  /\ nTrig = 0
  /\ rearmed = [d \in DeviceIds |-> FALSE]
  /\ sinceTrigger = [d \in DeviceIds |-> 0]
  /\ nOff = [d \in DeviceIds |-> 0]
  /\ stateLog = <<>>
  /\ haLog = <<>>
  /\ devices = [d \in DeviceIds |-> "absent"]
  /\ is_connected = FALSE
  /\ mqtt_was_connected = FALSE
  /\ mqtt_last_connection = -1
  /\ mqtt_last_disconnection = -1
  /\ outage = <<>>
  /\ droppedAt = -1
  /\ now = 0
  /\ ha_run = NoRun
  /\ runLog = NoRunLog
  /\ link = "down"
  /\ nEv = 0
  /\ commands = {}
  /\ acted = NoDevice
  /\ thread = "core"
  /\ reported = NoChange
  /\ last_result_code = -1

\* A configuration with no discovery prefix and no birth topic.
Init == Constructed /\ config = BasicConfig

\* Any of the configurations.
ConfigInit == Constructed /\ config \in Configs

\* The configuration with discovery and every block given.
DiscoveryInit == Constructed /\ config = FullConfig
IntervalInit == Constructed /\ config \in {BasicConfig, ZeroIntervalConfig}

\* The broker thread runs from loop_start() (async_start) to loop_stop()
\* (async_stop).
BrokerThreadRuns == pc \notin {"constructed", "stopped"}

\* signal_shutdown is the handler of SIGINT and SIGTERM from the entry of
\* async_loop; its exit restores the default for SIGINT only.
TrappedSignals ==
  IF pc \in {"constructed", "entry", "stopped"} THEN {}
  ELSE IF pc \in {"done", "raised"} THEN {"SIGTERM"}
  ELSE {"SIGINT", "SIGTERM"}

\* self._loop.create_task(...) is among the calls: the handler made a
\* task of an adapter command.
CreatesTask(calls) ==
  \E i \in 1..Len(calls) : calls[i].kind = "command"

\* create_task returns the task without running it: the handler returns,
\* and the loop goes on, whether or not the command has completed.
HandlerAwaitsCommand == message.id \notin commands
HandlerReturns == TRUE

\* The coroutine is suspended at an await and no callback is running:
\* event-loop callbacks may run.
LoopContext == pc \in {"await", "sleep"} /\ ~ha_run.active

\* A callback that runs on the event loop, or a thread-safe call into it,
\* wakes it when it sleeps on the blocked get task.
LoopWoken == IF get_task.state = "waiting" THEN TRUE ELSE wakeup

\* ------------------------------------------------------- the coroutines
async_start ==
  /\ pc = "constructed"
  /\ pc' = "entry"
  /\ shutdown' = FALSE
  /\ mqtt_was_connected' = FALSE
  /\ out' = <<Cmd("start", ""), Cmd("connect_async", ""),
              Cmd("loop_start", "")>>
  /\ UNCHANGED <<get_task, QueueState, message, wakeup, Translation,
                 TimerState, nEnq, nSig, dispatched, atShutdown, sigAt,
                 finalPubs, TimerHistory, StateHistory>>
  /\ UNCHANGED <<config, commands, AdapterState, mqtt_last_connection,
                 mqtt_last_disconnection, now, outage, droppedAt, link,
                 DiscoveryState, nEv>>
  /\ acted' = NoDevice
  /\ thread' = "core"
  /\ reported' = NoChange
  /\ last_result_code' = -1

\* async_loop, lines 240-242: the signal handlers are installed.
async_loop_entry ==
  /\ pc = "entry"
  /\ pc' = "test"
  /\ out' = <<>>
  /\ UNCHANGED <<shutdown, get_task, QueueState, message, wakeup,
                 Translation, TimerState, nEnq, nSig, dispatched, atShutdown,
                 sigAt, finalPubs, TimerHistory, StateHistory>>
  /\ UNCHANGED <<config, commands, AdapterState, BrokerState, DiscoveryState,
                 nEv>>
  /\ acted' = NoDevice
  /\ thread' = "core"
  /\ reported' = NoChange
  /\ last_result_code' = -1

\* `while not self._shutdown`: whether the loop is left.
LoopTestExitDrained == shutdown /\ pending_messages = <<>>
LoopTestExit == shutdown

async_loop_test ==
  /\ pc = "test"
  /\ pc' = IF LoopTestExit THEN "final" ELSE "create"
  /\ out' = <<>>
  /\ UNCHANGED <<shutdown, get_task, QueueState, message, wakeup,
                 Translation, TimerState, nEnq, nSig, dispatched, atShutdown,
                 sigAt, finalPubs, TimerHistory, StateHistory>>
  /\ UNCHANGED <<config, commands, AdapterState, BrokerState, DiscoveryState,
                 nEv>>
  /\ acted' = NoDevice
  /\ thread' = "core"
  /\ reported' = NoChange
  /\ last_result_code' = -1

\* self._get_task = self._loop.create_task(self._pending_messages.async_q.get())
async_loop_create ==
  /\ pc = "create"
  /\ pc' = "await"
  /\ get_task' = [state |-> "created", must_cancel |-> FALSE,
                  result |-> NoneMsg]
  /\ out' = <<>>
  /\ UNCHANGED <<shutdown, QueueState, message, wakeup, Translation,
                 TimerState, nEnq, nSig, dispatched, atShutdown, sigAt,
                 finalPubs, TimerHistory, StateHistory>>
  /\ UNCHANGED <<config, commands, AdapterState, BrokerState, DiscoveryState,
                 nEv>>
  /\ acted' = NoDevice
  /\ thread' = "core"
  /\ reported' = NoChange
  /\ last_result_code' = -1

\* A step of the task running async_q.get().  Its first step is scheduled
\* by create_task; a blocked one runs again when the event loop is woken.
\* A cancellation requested before the step makes it end cancelled, with
\* the queue untouched; otherwise it takes the head, or blocks.
get_task_step ==
  /\ pc = "await"
  /\ ~ha_run.active
  /\ \/ get_task.state = "created"
     \/ get_task.state = "waiting" /\ wakeup
  /\ wakeup' = FALSE
  /\ out' = <<>>
  /\ IF get_task.must_cancel
     THEN /\ get_task' = [get_task EXCEPT !.state = "cancelled"]
          /\ UNCHANGED pending_messages
     ELSE IF pending_messages # <<>>
     THEN /\ get_task' = [get_task EXCEPT
                            !.state = "done",
                            !.result = Get(pending_messages).item]
          /\ pending_messages' = Get(pending_messages).rest
     ELSE /\ get_task' = [get_task EXCEPT !.state = "waiting"]
          /\ UNCHANGED pending_messages
  /\ UNCHANGED <<shutdown, pc, unfinished, message, Translation, TimerState,
                 nEnq, nSig, dispatched, atShutdown, sigAt, finalPubs,
                 TimerHistory, StateHistory>>
  /\ UNCHANGED <<config, commands, AdapterState, BrokerState, DiscoveryState,
                 nEv>>
  /\ acted' = NoDevice
  /\ thread' = "core"
  /\ reported' = NoChange
  /\ last_result_code' = -1

\* `message = await self._get_task` resumes: with the item, or with
\* CancelledError (continue); the finally clears self._get_task.
async_loop_resume ==
  /\ pc = "await"
  /\ ~ha_run.active
  /\ get_task.state \in {"done", "cancelled"}
  /\ IF get_task.state = "done"
     THEN pc' = "dispatch" /\ message' = get_task.result
     ELSE pc' = "test" /\ UNCHANGED message
  /\ get_task' = NoTask
  /\ out' = <<>>
  /\ UNCHANGED <<shutdown, QueueState, wakeup, Translation, TimerState,
                 nEnq, nSig, dispatched, atShutdown, sigAt, finalPubs,
                 TimerHistory, StateHistory>>
  /\ UNCHANGED <<config, commands, AdapterState, BrokerState, DiscoveryState,
                 nEv>>
  /\ acted' = NoDevice
  /\ thread' = "core"
  /\ reported' = NoChange
  /\ last_result_code' = -1

\* The try block of lines 259-264.  The None item has no attribute `topic`:
\* the lookup raises AttributeError, and the except clause, which logs
\* message.topic, raises it again.  A topic with no entry raises KeyError,
\* which the except clause logs.  A handler's exception is logged too.
DispatchOutcome(m) ==
  IF m = NoneMsg THEN "escaped"
  ELSE IF m.topic \notin DOMAIN subscribetopics_lookup THEN "no_topic"
  ELSE IF on_message(subscribetopics_lookup[m.topic], m).raised THEN "raised"
  ELSE "handled"

async_loop_dispatch ==
  /\ pc = "dispatch"
  /\ ~ha_run.active
  /\ LET outcome == DispatchOutcome(message)
         r == on_message(subscribetopics_lookup[message.topic], message)
         runs == /\ outcome \in {"handled", "raised"}
                 /\ subscribetopics_lookup[message.topic] = "on_message"
                 /\ BirthMatches(message.payload)
     IN /\ dispatched' = Append(dispatched,
                                [id |-> message.id, outcome |-> outcome,
                                 after_shutdown |-> shutdown])
        /\ pc' = IF outcome = "escaped" THEN "finally_raise"
                 ELSE IF runs /\ RunStarted("on_message").active
                 THEN "dispatch"
                 ELSE "finally"
        /\ IF outcome \in {"handled", "raised"}
           THEN /\ out' = r.out
                /\ ha_state' = r.ha_state
                /\ commands' = IF CreatesTask(r.out)
                               THEN commands \cup {message.id}
                               ELSE commands
           ELSE out' = <<>> /\ UNCHANGED <<ha_state, commands>>
        /\ IF runs
           THEN /\ ha_run' = RunStarted("on_message")
                /\ runLog' = RunLogged("on_message")
           ELSE UNCHANGED DiscoveryState
  /\ UNCHANGED <<shutdown, get_task, QueueState, message, wakeup, state,
                 TimerState, nEnq, nSig, atShutdown, sigAt, finalPubs,
                 TimerHistory, StateHistory>>
  /\ UNCHANGED <<config, AdapterState, BrokerState, nEv>>
  /\ acted' = NoDevice
  /\ thread' = "core"
  /\ reported' = NoChange
  /\ last_result_code' = -1

\* _publish_ha_config from its test of self._shutdown for the next
\* configured device to the next such test, or to its end.  The call is
\* synchronous: only the signal handler and the broker thread act between
\* two iterations.  A TypeError goes to the caller: the router loop logs
\* it, the adapter gets it from its callback.
publish_ha_config_next ==
  /\ ha_run.active
  /\ LET r == publish_ha_config_device(Head(ha_run.todo))
         end == IF r.end = "running" /\ Tail(ha_run.todo) = <<>>
                THEN "completed" ELSE r.end
     IN /\ out' = r.out \o
                  (IF end = "raised" /\ ha_run.caller # "on_message"
                   THEN <<Raise("TypeError")>> ELSE <<>>)
        /\ runLog' = [runLog EXCEPT !.docs = @ \o r.out, !.end = end]
        /\ ha_run' = IF end = "running"
                     THEN [ha_run EXCEPT !.todo = Tail(@)] ELSE NoRun
        /\ IF end # "running" /\ ha_run.caller = "on_message"
           THEN /\ pc' = "finally"
                /\ dispatched' =
                     IF end = "raised"
                     THEN [dispatched EXCEPT
                             ![Len(dispatched)].outcome = "raised"]
                     ELSE dispatched
           ELSE UNCHANGED <<pc, dispatched>>
  /\ UNCHANGED <<shutdown, get_task, QueueState, message, wakeup,
                 Translation, TimerState, nEnq, nSig, atShutdown, sigAt,
                 finalPubs, TimerHistory, StateHistory>>
  /\ UNCHANGED <<config, commands, AdapterState, BrokerState, nEv>>
  /\ acted' = NoDevice
  /\ thread' = "core"
  /\ reported' = NoChange
  /\ last_result_code' = -1

\* finally: self._pending_messages.async_q.task_done(); an exception that
\* left the except clause then leaves async_loop through its own finally.
async_loop_task_done ==
  /\ pc \in {"finally", "finally_raise"}
  /\ HandlerReturns
  /\ unfinished' = unfinished - 1
  /\ pc' = IF pc = "finally" THEN "test" ELSE "raised"
  /\ out' = IF pc = "finally" THEN <<>> ELSE <<Raise("AttributeError")>>
  /\ message' = NoneMsg
  /\ UNCHANGED <<shutdown, get_task, pending_messages, wakeup, Translation,
                 TimerState, nEnq, nSig, dispatched, atShutdown, sigAt,
                 finalPubs, TimerHistory, StateHistory>>
  /\ UNCHANGED <<config, commands, AdapterState, BrokerState, DiscoveryState,
                 nEv>>
  /\ acted' = NoDevice
  /\ thread' = "core"
  /\ reported' = NoChange
  /\ last_result_code' = -1

\* self._publish_baseunit_property(BaseUnit.PROP_IS_CONNECTED, False)
async_loop_final ==
  /\ pc = "final"
  /\ pc' = "sleep"
  /\ out' = publish_baseunit_property("is_connected", "False")
  /\ finalPubs' = out'
  /\ UNCHANGED <<shutdown, get_task, QueueState, message, wakeup,
                 Translation, TimerState, nEnq, nSig, dispatched, atShutdown,
                 sigAt, TimerHistory, StateHistory>>
  /\ UNCHANGED <<config, commands, AdapterState, BrokerState, DiscoveryState,
                 nEv>>
  /\ acted' = NoDevice
  /\ thread' = "core"
  /\ reported' = NoChange
  /\ last_result_code' = -1

\* await asyncio.sleep(0), then the finally of async_loop.
async_loop_return ==
  /\ pc = "sleep"
  /\ ~ha_run.active
  /\ pc' = "done"
  /\ out' = <<>>
  /\ UNCHANGED <<shutdown, get_task, QueueState, message, wakeup,
                 Translation, TimerState, nEnq, nSig, dispatched, atShutdown,
                 sigAt, finalPubs, TimerHistory, StateHistory>>
  /\ UNCHANGED <<config, commands, AdapterState, BrokerState, DiscoveryState,
                 nEv>>
  /\ acted' = NoDevice
  /\ thread' = "core"
  /\ reported' = NoChange
  /\ last_result_code' = -1

\* async_stop: the adapter is stopped, every recorded handle is cancelled
\* and removed, the broker thread is stopped and the client disconnects.
StopCancelsNothing == timers
StopCancelled ==
  {t \in timers : \A d \in DeviceIds : auto_reset_handles[d] # t.id}

\* self._auto_reset_handles.pop(item[0]) for every item
StopPopsNothing == auto_reset_handles
StopPopped == [d \in DeviceIds |-> 0]

async_stop ==
  /\ pc = "done"
  /\ pc' = "stopped"
  /\ timers' = StopCancelled
  /\ auto_reset_handles' = StopPopped
  /\ out' = <<Cmd("stop", ""), Cmd("loop_stop", ""), Cmd("disconnect", "")>>
  /\ UNCHANGED <<shutdown, get_task, QueueState, message, wakeup,
                 Translation, nEnq, nSig, dispatched, atShutdown, sigAt,
                 finalPubs, TimerHistory, StateHistory>>
  /\ UNCHANGED <<config, commands, AdapterState, BrokerState, DiscoveryState,
                 nEv>>
  /\ acted' = NoDevice
  /\ thread' = "core"
  /\ reported' = NoChange
  /\ last_result_code' = -1

\* ------------------------------------------- signal and broker thread
signal_shutdown_no_sentinel(sig) ==
  /\ sig \in TrappedSignals
  /\ nSig < MaxSignals
  /\ nSig' = nSig + 1
  /\ shutdown' = TRUE
  /\ get_task' = IF get_task.state \in {"created", "waiting"}
                 THEN [get_task EXCEPT !.must_cancel = TRUE]
                 ELSE get_task
  /\ atShutdown' = IF shutdown THEN atShutdown
                   ELSE {pending_messages[i].id :
                           i \in 1..Len(pending_messages)} \ {0}
  /\ sigAt' = IF shutdown THEN sigAt
              ELSE IF pc = "await" THEN get_task.state ELSE pc
  /\ out' = <<>>
  /\ UNCHANGED <<pc, QueueState, wakeup, message, Translation, TimerState,
                 nEnq, dispatched, finalPubs, TimerHistory, StateHistory>>
  /\ UNCHANGED <<config, commands, AdapterState, BrokerState, DiscoveryState,
                 nEv>>
  /\ acted' = NoDevice
  /\ thread' = "signal"
  /\ reported' = NoChange
  /\ last_result_code' = -1

\* signal_shutdown(sig, frame): the flag, the cancellation of the wait in
\* flight, the None item.
signal_shutdown(sig) ==
  /\ sig \in TrappedSignals
  /\ nSig < MaxSignals
  /\ nSig' = nSig + 1
  /\ shutdown' = TRUE
  /\ get_task' = IF get_task.state \in {"created", "waiting"}
                 THEN [get_task EXCEPT !.must_cancel = TRUE]
                 ELSE get_task
  /\ pending_messages' = PutNowait(pending_messages, NoneMsg)
  /\ unfinished' = unfinished + 1
  /\ wakeup' = LoopWoken
  /\ atShutdown' = IF shutdown THEN atShutdown
                   ELSE {pending_messages[i].id :
                           i \in 1..Len(pending_messages)} \ {0}
  /\ sigAt' = IF shutdown THEN sigAt
              ELSE IF pc = "await" THEN get_task.state ELSE pc
  /\ out' = <<>>
  /\ UNCHANGED <<pc, message, Translation, TimerState, nEnq, dispatched,
                 finalPubs, TimerHistory, StateHistory>>
  /\ UNCHANGED <<config, commands, AdapterState, BrokerState, DiscoveryState,
                 nEv>>
  /\ acted' = NoDevice
  /\ thread' = "signal"
  /\ reported' = NoChange
  /\ last_result_code' = -1

\* _mqtt_on_message: self._pending_messages.sync_q.put_nowait(message)
mqtt_on_message(m) ==
  /\ BrokerThreadRuns
  /\ nEnq < MaxMsgs
  /\ nEnq' = nEnq + 1
  /\ LET item == [id |-> nEnq + 1, topic |-> m.topic, payload |-> m.payload]
     IN IF PutNowaitFull(pending_messages)
        THEN /\ out' = <<Raise("Full")>>
             /\ UNCHANGED <<pending_messages, unfinished, wakeup>>
        ELSE /\ out' = <<>>
             /\ pending_messages' = PutNowait(pending_messages, item)
             /\ unfinished' = unfinished + 1
             /\ wakeup' = LoopWoken
  /\ UNCHANGED <<shutdown, pc, get_task, message, Translation, TimerState,
                 nSig, dispatched, atShutdown, sigAt, finalPubs,
                 TimerHistory, StateHistory>>
  /\ UNCHANGED <<config, commands, AdapterState, BrokerState, DiscoveryState,
                 nEv>>
  /\ acted' = NoDevice
  /\ thread' = "broker"
  /\ reported' = NoChange
  /\ last_result_code' = -1

\* The payload of a bool: str(True), str(False).
BoolStr(b) == IF b THEN "True" ELSE "False"

\* _mqtt_on_connect publishes self._baseunit.is_connected as it is when the
\* callback runs.
ConnectivityAlwaysTrue == "True"
ConnectivityPayload == BoolStr(is_connected)

\* The subscribe calls of _mqtt_on_connect, in the registry's order.
RECURSIVE Subscribes(_)
Subscribes(topics) ==
  IF topics = <<>> THEN <<>>
  ELSE <<Cmd("subscribe", Head(topics).topic)>> \o Subscribes(Tail(topics))

\* _mqtt_on_connect(client, userdata, flags, result_code), called by the
\* broker client's thread with the result of a connection attempt: 0 is
\* CONNACK_ACCEPTED.
\* `outage = self._mqtt_last_connection - self._mqtt_last_disconnection`
\* on a connect at time `at`, computed when the client was connected
\* before; with no disconnection recorded the subtraction raises, which is
\* caught, and no outage is logged.
Outage(at) ==
  IF mqtt_was_connected /\ mqtt_last_disconnection # -1
  THEN <<at - mqtt_last_disconnection>> ELSE <<>>

mqtt_on_connect(result_code) ==
  /\ BrokerThreadRuns
  /\ link = "down"
  /\ IF result_code # 0
     THEN /\ out' = <<>>
          /\ UNCHANGED <<mqtt_was_connected, mqtt_last_connection, outage,
                         link>>
     ELSE /\ mqtt_last_connection' = now
          /\ outage' = Outage(now)
          /\ mqtt_was_connected' = TRUE
          /\ link' = "up"
          /\ out' = <<Pub(IsConnectedTopic, ConnectivityPayload, TRUE)>> \o
                    Subscribes(subscribetopics)
  /\ UNCHANGED <<shutdown, pc, get_task, QueueState, message, wakeup,
                 Translation, TimerState, nEnq, nSig, dispatched, atShutdown,
                 sigAt, finalPubs, TimerHistory, StateHistory>>
  /\ UNCHANGED <<config, commands, AdapterState, mqtt_last_disconnection, now,
                 droppedAt, DiscoveryState, nEv>>
  /\ acted' = NoDevice
  /\ thread' = "broker"
  /\ reported' = NoChange
  /\ last_result_code' = result_code

\* _mqtt_on_disconnect(client, userdata, result_code): 0 is
\* MQTT_ERR_SUCCESS, a disconnect this client asked for.
StampedAlways(result_code) == now
StampedOnce(result_code) ==
  IF result_code # 0 /\ mqtt_last_disconnection = -1
  THEN now ELSE mqtt_last_disconnection
Stamped(result_code) ==
  IF result_code # 0 THEN now ELSE mqtt_last_disconnection

mqtt_on_disconnect(result_code) ==
  /\ BrokerThreadRuns
  /\ link = "up"
  /\ link' = "down"
  /\ mqtt_last_disconnection' = Stamped(result_code)
  /\ droppedAt' = now
  /\ out' = <<>>
  /\ UNCHANGED <<shutdown, pc, get_task, QueueState, message, wakeup,
                 Translation, TimerState, nEnq, nSig, dispatched, atShutdown,
                 sigAt, finalPubs, TimerHistory, StateHistory>>
  /\ UNCHANGED <<config, commands, AdapterState, mqtt_was_connected,
                 mqtt_last_connection, now, outage, DiscoveryState, nEv>>
  /\ acted' = NoDevice
  /\ thread' = "broker"
  /\ reported' = NoChange
  /\ last_result_code' = result_code

\* Time passes on the clock that datetime.now() reads.
ClockAdvance ==
  /\ now < MaxClock
  /\ now' = now + 1
  /\ out' = <<>>
  /\ UNCHANGED <<shutdown, pc, get_task, QueueState, message, wakeup,
                 Translation, TimerState, nEnq, nSig, dispatched, atShutdown,
                 sigAt, finalPubs, TimerHistory, StateHistory>>
  /\ UNCHANGED <<config, commands, AdapterState, mqtt_was_connected,
                 mqtt_last_connection, mqtt_last_disconnection, outage,
                 droppedAt, link, DiscoveryState, nEv>>
  /\ acted' = NoDevice
  /\ thread' = "clock"
  /\ reported' = NoChange
  /\ last_result_code' = -1

\* --------------------------------------------------- adapter callbacks
\* The task of an adapter command (async_set_operation_mode,
\* async_clear_status, async_set_datetime) completes; it runs on the event
\* loop, while the coroutine is suspended.
command_task(id) ==
  /\ LoopContext
  /\ id \in commands
  /\ commands' = commands \ {id}
  /\ wakeup' = LoopWoken
  /\ out' = <<>>
  /\ UNCHANGED <<shutdown, pc, get_task, QueueState, message, Translation,
                 TimerState, nEnq, nSig, dispatched, atShutdown, sigAt,
                 finalPubs, TimerHistory, StateHistory>>
  /\ UNCHANGED <<config, AdapterState, BrokerState, DiscoveryState, nEv>>
  /\ acted' = NoDevice
  /\ thread' = "core"
  /\ reported' = NoChange
  /\ last_result_code' = -1

\* The task of self._baseunit.async_set_operation_mode(operation_mode)
\* runs: the base unit takes the mode and, when that changes its state, the
\* adapter reports the change of `state` (_baseunit_properties_changed).
\* "the set disarm operation will not generate a response from the base
\* unit as there is no change" (lines 747-751).
async_set_operation_mode(id, operation_mode) ==
  /\ LoopContext
  /\ id \in commands
  /\ commands' = commands \ {id}
  /\ wakeup' = LoopWoken
  /\ baseunit_state' = operation_mode
  /\ IF baseunit_state # operation_mode
     THEN /\ out' = publish_baseunit_property("state", operation_mode)
          /\ state' = operation_mode
          /\ ha_state' = HaStateOf(operation_mode, ha_state)
          /\ stateLog' = Append(stateLog, operation_mode)
          /\ haLog' = haLog \o HaPayloads(out')
     ELSE /\ out' = <<>>
          /\ UNCHANGED <<Translation, StateHistory>>
  /\ UNCHANGED <<shutdown, pc, get_task, QueueState, message, TimerState,
                 nEnq, nSig, dispatched, atShutdown, sigAt, finalPubs,
                 TimerHistory>>
  /\ UNCHANGED <<config, devices, is_connected, BrokerState, DiscoveryState,
                 nEv>>
  /\ acted' = NoDevice
  /\ thread' = "core"
  /\ reported' = NoChange
  /\ last_result_code' = -1

\* device_config.auto_reset_interval or Translator.AUTO_RESET_INTERVAL
Interval(d) ==
  LET auto_reset_interval == config.auto_reset_interval[d]
  IN IF auto_reset_interval # <<>> /\ auto_reset_interval[1] # 0
     THEN auto_reset_interval[1]
     ELSE AUTO_RESET_INTERVAL

\* _device_on_event, the Trigger branch: the handle recorded for the device
\* is cancelled, a timer is armed.
CancelNothing(d) == timers
CancelRecorded(d) == {t \in timers : t.id # auto_reset_handles[d]}

RearmUnlessPending(d, id) ==
  IF \E t \in timers : t.id = auto_reset_handles[d] THEN timers
  ELSE timers \cup {[id |-> id, dev |-> d, remaining |-> Interval(d)]}

RearmCancelsOnly(d, id) == CancelRecorded(d)

Rearm(d, id) ==
  CancelRecorded(d) \cup {[id |-> id, dev |-> d, remaining |-> Interval(d)]}

\* `if event_code == DeviceEventCode.Trigger:`
IsAnyEvent(code) == TRUE
IsTrigger(code) == code = "Trigger"

device_on_event(d, code) ==
  /\ LoopContext
  /\ wakeup' = LoopWoken
  /\ IF ~HasTopic(d)
     THEN out' = <<>> /\ UNCHANGED <<TimerState, TimerHistory>>
     ELSE LET topic == devices_config[d].topic
              common ==
                <<Pub(topic \o "/event_code", code, FALSE)>> \o
                (IF code \in {"BatteryLow", "PowerOnReset"}
                 THEN <<Pub(topic \o "/battery", code, TRUE)>> ELSE <<>>) \o
                (IF code = "Tamper"
                 THEN <<Pub(topic \o "/tamper", "True", FALSE)>> ELSE <<>>)
          IN IF ~IsTrigger(code)
             THEN out' = common /\ UNCHANGED <<TimerState, TimerHistory>>
             ELSE /\ nTrig < MaxTriggers
                  /\ nTrig' = nTrig + 1
                  /\ out' = common \o <<Pub(topic, "On", TRUE)>>
                  /\ timers' = Rearm(d, nTrig + 1)
                  /\ auto_reset_handles' =
                       [auto_reset_handles EXCEPT ![d] = nTrig + 1]
                  /\ rearmed' = [rearmed EXCEPT ![d] =
                                   \E t \in timers : t.dev = d]
                  /\ sinceTrigger' = [sinceTrigger EXCEPT ![d] = 0]
                  /\ nOff' = [nOff EXCEPT ![d] = 0]
  /\ UNCHANGED <<shutdown, pc, get_task, QueueState, message, Translation,
                 nEnq, nSig, dispatched, atShutdown, sigAt, finalPubs,
                 StateHistory>>
  /\ UNCHANGED <<config, commands, AdapterState, BrokerState, DiscoveryState,
                 nEv>>
  /\ acted' = Acted("device_on_event", d)
  /\ thread' = "core"
  /\ reported' = NoChange
  /\ last_result_code' = -1

\* _auto_reset(device_id), called by the event loop when a timer is due.
\* pop() of a missing key raises KeyError after the publish.
PoppedNothing(d) == auto_reset_handles
Popped(d) == [auto_reset_handles EXCEPT ![d] = 0]

auto_reset(t) ==
  /\ LoopContext
  /\ t \in timers
  /\ t.remaining = 0
  /\ wakeup' = LoopWoken
  /\ timers' = timers \ {t}
  /\ out' = (IF HasTopic(t.dev)
             THEN <<Pub(devices_config[t.dev].topic, "Off", TRUE)>>
             ELSE <<>>) \o
            (IF auto_reset_handles[t.dev] = 0
             THEN <<Raise("KeyError")>> ELSE <<>>)
  /\ auto_reset_handles' = Popped(t.dev)
  /\ nOff' = [nOff EXCEPT ![t.dev] =
                IF HasTopic(t.dev) THEN nOff[t.dev] + 1 ELSE nOff[t.dev]]
  /\ UNCHANGED <<shutdown, pc, get_task, QueueState, message, Translation,
                 nEnq, nSig, dispatched, atShutdown, sigAt, finalPubs,
                 nTrig, rearmed, sinceTrigger, StateHistory>>
  /\ UNCHANGED <<config, commands, AdapterState, BrokerState, DiscoveryState,
                 nEv>>
  /\ acted' = NoDevice
  /\ thread' = "core"
  /\ reported' = NoChange
  /\ last_result_code' = -1

\* One unit of time passes: every armed timer's delay shrinks; a timer is
\* called at or after its time, not before.
Tick ==
  /\ \E t \in timers : t.remaining > 0
  /\ timers' = {[t EXCEPT !.remaining =
                   IF t.remaining > 0 THEN t.remaining - 1 ELSE 0] :
                t \in timers}
  /\ sinceTrigger' =
       [d \in DeviceIds |->
          IF HasTopic(d) /\ sinceTrigger[d] < Interval(d)
             /\ (auto_reset_handles[d] # 0 \/ nOff[d] > 0)
          THEN sinceTrigger[d] + 1 ELSE sinceTrigger[d]]
  /\ out' = <<>>
  /\ UNCHANGED <<shutdown, pc, get_task, QueueState, message, wakeup,
                 Translation, auto_reset_handles, nEnq, nSig, dispatched,
                 atShutdown, sigAt, finalPubs, nTrig, rearmed, nOff,
                 StateHistory>>
  /\ UNCHANGED <<config, commands, AdapterState, BrokerState, DiscoveryState,
                 nEv>>
  /\ acted' = NoDevice
  /\ thread' = "clock"
  /\ reported' = NoChange
  /\ last_result_code' = -1

\* `device_config = self._config.translator.devices.get(device.device_id)`
\* and the test of it: whether the callback goes on for the device.
Listens(d) == d \in DOMAIN devices_config

\* `device_config and device_config.topic`: the topic the callback
\* publishes under, "" when it publishes nothing.
DeviceTopicOrDefault(d) ==
  IF d \in DOMAIN devices_config THEN devices_config[d].topic
  ELSE "home/unknown"
DeviceTopic(d) ==
  IF d \in DOMAIN devices_config THEN devices_config[d].topic ELSE ""

\* The adapter's flag enumerations (DCFlags, ESFlags, SwitchFlags,
\* SSFlags), with two flags each here: the flag's name and its bit.
FlagsOf ==
  [name \in {"characteristics", "enable_status", "switches",
             "special_status"} |->
     << [name |-> name \o "_a", value |-> 1],
        [name |-> name \o "_b", value |-> 2] >>]

\* bool(value & item.value)
FlagNonZero(value, bit) == value # 0
FlagSet(value, bit) == (value \div bit) % 2 = 1

RECURSIVE FlagPublishes(_, _, _, _)
FlagPublishes(topic_parent, name, value, flags) ==
  IF flags = <<>> THEN <<>>
  ELSE <<Pub(topic_parent \o "/" \o name \o "/" \o Head(flags).name,
             BoolStr(FlagSet(value, Head(flags).value)), TRUE)>> \o
       FlagPublishes(topic_parent, name, value, Tail(flags))

\* _publish_device_property(topic_parent, device, name, value) for a device
\* that is no SpecialDevice: the publishes it makes.  Values are numbers;
\* is_closed is 1 or 0.
publish_device_property(topic_parent, d, name, value) ==
  IF name = "is_closed"
  THEN IF devices[d] = "DoorMagnet"
       THEN <<Pub(topic_parent, IF value = 1 THEN "Closed" ELSE "Open",
                  TRUE)>>
       ELSE <<Pub(topic_parent, "Off", TRUE)>>
  ELSE IF name = "category"
  THEN <<Pub(topic_parent \o "/category/code", Dec(value), TRUE),
         Pub(topic_parent \o "/category/description",
             "category " \o Dec(value), TRUE)>>
  ELSE IF name \in DOMAIN FlagsOf
  THEN FlagPublishes(topic_parent, name, value, FlagsOf[name])
  ELSE IF name = "device_id"
  THEN <<Pub(topic_parent \o "/device_id", Hex(value, 6), TRUE)>>
  ELSE IF name \in {"zone", "type", "rssi_db", "rssi_bars", "high_limit",
                    "low_limit", "control_limit_fields_exist",
                    "control_high_limit", "control_low_limit"}
  THEN <<Pub(topic_parent \o "/" \o name, Dec(value), TRUE)>>
  ELSE <<>>

\* The property changes a device reports.
DeviceChangeInputs ==
  { [name |-> "is_closed", new_value |-> 1],
    [name |-> "characteristics", new_value |-> 2],
    [name |-> "device_id", new_value |-> 3],
    [name |-> "message_attribute", new_value |-> 0] }

\* _device_on_properties_changed(device, changes) for one change
device_on_properties_changed(d, change) ==
  /\ LoopContext
  /\ wakeup' = LoopWoken
  /\ acted' = Acted("device_on_properties_changed", d)
  /\ thread' = "core"
  /\ reported' = change
  /\ last_result_code' = -1
  /\ out' = IF DeviceTopic(d) # ""
            THEN publish_device_property(DeviceTopic(d), d, change.name,
                                         change.new_value)
            ELSE <<>>
  /\ UNCHANGED <<shutdown, pc, get_task, QueueState, message, Translation,
                 TimerState, nEnq, nSig, dispatched, atShutdown, sigAt,
                 finalPubs, TimerHistory, StateHistory>>
  /\ UNCHANGED <<config, commands, AdapterState, BrokerState, DiscoveryState,
                 nEv>>

\* _baseunit_device_added(baseunit, device): the adapter has the device in
\* its device set; the discovery documents of a configured device are
\* published, a TypeError going to the adapter.
baseunit_device_added(d, type) ==
  /\ LoopContext
  /\ wakeup' = LoopWoken
  /\ acted' = Acted("baseunit_device_added", d)
  /\ thread' = "core"
  /\ reported' = NoChange
  /\ last_result_code' = -1
  /\ devices' = [devices EXCEPT ![d] = type]
  /\ out' = IF Listens(d) /\ config.discovery_prefix # ""
               /\ devices_config[d].topic # ""
            THEN IF add_device_identifiers_raises(d)
                 THEN <<Raise("TypeError")>>
                 ELSE (IF type \in SupportedTypes
                       THEN <<Doc(PLATFORM_BINARY_SENSOR,
                                  "lifesos_" \o Hex(d, 6))>>
                       ELSE <<>>) \o
                      publish_device_rssi_config(d).out \o
                      publish_device_battery_config(d).out
            ELSE <<>>
  /\ UNCHANGED <<shutdown, pc, get_task, QueueState, message, Translation,
                 TimerState, nEnq, nSig, dispatched, atShutdown, sigAt,
                 finalPubs, TimerHistory, StateHistory>>
  /\ UNCHANGED <<config, commands, is_connected, baseunit_state, BrokerState, DiscoveryState,
                 nEv>>

\* _baseunit_device_deleted(baseunit, device): the adapter has dropped the
\* device from its device set.
baseunit_device_deleted(d) ==
  /\ LoopContext
  /\ devices[d] # "absent"
  /\ wakeup' = LoopWoken
  /\ acted' = Acted("baseunit_device_deleted", d)
  /\ thread' = "core"
  /\ reported' = NoChange
  /\ last_result_code' = -1
  /\ devices' = [devices EXCEPT ![d] = "absent"]
  /\ out' = <<>>
  /\ UNCHANGED <<shutdown, pc, get_task, QueueState, message, Translation,
                 TimerState, nEnq, nSig, dispatched, atShutdown, sigAt,
                 finalPubs, TimerHistory, StateHistory>>
  /\ UNCHANGED <<config, commands, is_connected, baseunit_state, BrokerState, DiscoveryState,
                 nEv>>

\* The property changes the adapter reports.
ChangeInputs ==
  {[name |-> "state", new_value |-> v] :
     v \in {"Disarm", "Home", "Away", "Monitor", "AwayExitDelay",
            "AwayEntryDelay", "None"}}
  \cup {[name |-> "exit_delay", new_value |-> "15"],
        [name |-> "is_connected", new_value |-> "False"],
        [name |-> "is_connected", new_value |-> "True"],
        [name |-> "password", new_value |-> "x"]}

\* `change.name == BaseUnit.PROP_IS_CONNECTED and change.new_value`
has_connected(change) ==
  change.name = "is_connected" /\ change.new_value = "True"

\* _baseunit_properties_changed(changes) for one change:
\* _publish_baseunit_property(change.name, change.new_value), and
\* _publish_ha_config when the change is the base unit getting connected.
\* The adapter has set the property it reports.
baseunit_properties_changed(change) ==
  /\ LoopContext
  /\ wakeup' = LoopWoken
  /\ out' = publish_baseunit_property(change.name, change.new_value) \o
            (IF has_connected(change)
             THEN publish_ha_config_start.out \o
                  (IF publish_ha_config_start.end = "raised"
                   THEN <<Raise("TypeError")>> ELSE <<>>)
             ELSE <<>>)
  /\ IF change.name = "state"
     THEN /\ Len(stateLog) < MaxChanges
          /\ state' = change.new_value
          /\ ha_state' = HaStateOf(change.new_value, ha_state)
          /\ stateLog' = Append(stateLog, change.new_value)
          /\ haLog' = haLog \o HaPayloads(out')
     ELSE UNCHANGED <<Translation, StateHistory>>
  /\ is_connected' = IF change.name = "is_connected"
                     THEN change.new_value = "True" ELSE is_connected
  /\ baseunit_state' = IF change.name = "state"
                       THEN change.new_value ELSE baseunit_state
  /\ IF has_connected(change)
     THEN /\ ha_run' = RunStarted("properties_changed")
          /\ runLog' = RunLogged("properties_changed")
     ELSE UNCHANGED DiscoveryState
  /\ UNCHANGED <<shutdown, pc, get_task, QueueState, message, TimerState,
                 nEnq, nSig, dispatched, atShutdown, sigAt, finalPubs,
                 TimerHistory>>
  /\ UNCHANGED <<config, commands, devices, BrokerState, nEv>>
  /\ acted' = NoDevice
  /\ thread' = "core"
  /\ reported' = NoChange
  /\ last_result_code' = -1

\* The events the base unit reports: a ContactID with its qualifier, its
\* category and its event code ("" when it has none).
ContactIds ==
  [event_qualifier : {"Event", "Restore", "Repeat"},
   event_category : {"Alarm", "Trouble"},
   event_code : {"", "Burglary"}]

\* `event_qualifier == EventQualifier.Event and
\*  event_category == EventCategory.Alarm`
ForcesOnAnyEvent(contact_id) == contact_id.event_qualifier = "Event"
ForcesTriggered(contact_id) ==
  /\ contact_id.event_qualifier = "Event"
  /\ contact_id.event_category = "Alarm"

\* _baseunit_event(baseunit, contact_id)
baseunit_event(contact_id) ==
  /\ LoopContext
  /\ nEv < MaxEvents
  /\ nEv' = nEv + 1
  /\ wakeup' = LoopWoken
  /\ LET forces == ForcesTriggered(contact_id)
     IN /\ out' =
             <<Pub(BaseTopic \o "/event",
                   contact_id.event_qualifier \o "," \o
                   contact_id.event_category \o "," \o
                   contact_id.event_code, FALSE)>> \o
             (IF contact_id.event_code = "" THEN <<>>
              ELSE IF contact_id.event_qualifier = "Event"
              THEN <<Pub(BaseTopic \o "/event_code",
                         contact_id.event_code, FALSE)>>
              ELSE IF contact_id.event_qualifier = "Restore"
              THEN <<Pub(BaseTopic \o "/restore_code",
                         contact_id.event_code, FALSE)>>
              ELSE <<>>) \o
             (IF forces THEN <<Pub(HaStateTopic, STATE_TRIGGERED, TRUE)>>
              ELSE <<>>)
        /\ ha_state' = IF forces THEN STATE_TRIGGERED ELSE ha_state
  /\ UNCHANGED <<shutdown, pc, get_task, QueueState, message, state,
                 TimerState, nEnq, nSig, dispatched, atShutdown, sigAt,
                 finalPubs, TimerHistory, StateHistory>>
  /\ UNCHANGED <<config, commands, AdapterState, BrokerState, DiscoveryState>>
  /\ acted' = NoDevice
  /\ thread' = "core"
  /\ reported' = NoChange
  /\ last_result_code' = -1

\* ------------------------------------------------------ specifications
\* The coroutines and the signal: what runs whatever the traffic is.
LifecycleNext ==
  \/ async_start
  \/ async_loop_entry
  \/ async_loop_test
  \/ async_loop_create
  \/ get_task_step
  \/ async_loop_resume
  \/ async_loop_dispatch
  \/ async_loop_task_done
  \/ async_loop_final
  \/ async_loop_return
  \/ async_stop
  \/ \E sig \in {"SIGINT", "SIGTERM"} : signal_shutdown(sig)

\* The message router: the coroutines, the signal and the broker's inbound
\* messages.
RouterNext ==
  \/ LifecycleNext
  \/ \E m \in MsgInputs : mqtt_on_message(m)

\* The adapter commands: the coroutines, the signal, the broker's inbound
\* messages and the command tasks, which may complete or never do.
CommandNext ==
  \/ LifecycleNext
  \/ \E m \in MsgInputs : mqtt_on_message(m)
  \/ \E id \in 1..MaxMsgs : command_task(id)

\* The auto-reset scheduler: the coroutines, the signal, device events,
\* timers and time.
TimerNext ==
  \/ LifecycleNext
  \/ \E d \in DeviceIds, code \in EventCodes : device_on_event(d, code)
  \/ \E t \in timers : auto_reset(t)
  \/ Tick

\* The device events: the coroutines, the signal and the events of the
\* configured devices with every kind of code.
AllEventCodes == EventCodes \cup {"PowerOnReset"}

CodeNext ==
  \/ LifecycleNext
  \/ \E d \in ConfiguredIds, code \in AllEventCodes :
       device_on_event(d, code)

\* The flags: the coroutines, the signal, device 2 coming, and the changes
\* of the flag-set properties of the configured devices, with every raw
\* value of the two flags and of a bit no flag has.
FlagChanges ==
  {[name |-> name, new_value |-> value] :
     name \in DOMAIN FlagsOf, value \in 0..5}

FlagNext ==
  \/ LifecycleNext
  \/ \E type \in DeviceTypes[2] : baseunit_device_added(2, type)
  \/ \E d \in ConfiguredIds, change \in FlagChanges :
       device_on_properties_changed(d, change)

\* The auto-reset delay: the coroutines, the signal, the Triggers of the
\* configured devices, timers and time.
IntervalNext ==
  \/ LifecycleNext
  \/ \E d \in ConfiguredIds : device_on_event(d, "Trigger")
  \/ \E t \in timers : auto_reset(t)
  \/ Tick

\* The auto-reset of one device: the coroutines, the signal, the Triggers
\* of device 1, its timers and time.
OffNext ==
  \/ LifecycleNext
  \/ device_on_event(1, "Trigger")
  \/ \E t \in timers : auto_reset(t)
  \/ Tick

\* The outbound state translation: the coroutines, the signal and the base
\* unit's property changes.
StateNext ==
  \/ LifecycleNext
  \/ \E change \in ChangeInputs : baseunit_properties_changed(change)

\* The broker connection: the coroutines, the signal, the results of the
\* client's connection attempts, its disconnects, the clock, and the base
\* unit's connectivity with the discovery it triggers.
ConnectivityChanges ==
  {[name |-> "is_connected", new_value |-> v] : v \in {"True", "False"}}

ConnectNext ==
  \/ LifecycleNext
  \/ \E result_code \in {0, 5} : mqtt_on_connect(result_code)
  \/ \E result_code \in {0, 1} : mqtt_on_disconnect(result_code)
  \/ ClockAdvance
  \/ \E change \in ConnectivityChanges : baseunit_properties_changed(change)
  \/ publish_ha_config_next

\* The outages: the coroutines, the signal, the results of the client's
\* connection attempts, the connection lost (the client disconnects
\* itself only in async_stop, after loop_stop(): the broker thread reports
\* no disconnect with MQTT_ERR_SUCCESS), and the clock.
OutageNext ==
  \/ LifecycleNext
  \/ \E result_code \in {0, 5} : mqtt_on_connect(result_code)
  \/ \E result_code \in {1, 7} : mqtt_on_disconnect(result_code)
  \/ ClockAdvance

\* Discovery on a birth message: the coroutines, the signal, the messages
\* of the birth topic, device 1 coming, and the discovery run.
BirthInputs ==
  { [topic |-> BirthTopic, payload |-> "online"],
    [topic |-> BirthTopic, payload |-> "offline"],
    [topic |-> BirthTopic, payload |-> ""] }

BirthNext ==
  \/ LifecycleNext
  \/ \E m \in BirthInputs : mqtt_on_message(m)
  \/ baseunit_device_added(1, "PIRSensor")
  \/ publish_ha_config_next

\* Discovery when the base unit gets connected: the coroutines, the signal,
\* the configured devices coming and going, the base unit's connectivity,
\* and the discovery run.
RunNext ==
  \/ LifecycleNext
  \/ \E d \in ConfiguredIds : \E type \in DeviceTypes[d] :
       baseunit_device_added(d, type)
  \/ \E d \in ConfiguredIds : baseunit_device_deleted(d)
  \/ \E change \in ConnectivityChanges : baseunit_properties_changed(change)
  \/ publish_ha_config_next

\* Device 2, of either type: the coroutines, the signal, the device coming,
\* the base unit getting connected with the discovery run it starts, the
\* device's events and its property changes.
TypeChanges ==
  { [name |-> "is_closed", new_value |-> 1],
    [name |-> "device_id", new_value |-> 2] }

TypeNext ==
  \/ LifecycleNext
  \/ \E type \in DeviceTypes[2] : baseunit_device_added(2, type)
  \/ baseunit_properties_changed([name |-> "is_connected",
                                  new_value |-> "True"])
  \/ publish_ha_config_next
  \/ \E code \in {"Trigger", "Tamper"} : device_on_event(2, code)
  \/ \E change \in TypeChanges : device_on_properties_changed(2, change)

\* The devices: the coroutines, the signal, the adapter's devices coming
\* and going, their events and their property changes.
DeviceNext ==
  \/ LifecycleNext
  \/ \E d \in DeviceIds : \E type \in DeviceTypes[d] :
       baseunit_device_added(d, type)
  \/ \E d \in DeviceIds : baseunit_device_deleted(d)
  \/ \E d \in DeviceIds, code \in {"Trigger", "Tamper"} :
       device_on_event(d, code)
  \/ \E d \in DeviceIds, change \in DeviceChangeInputs :
       device_on_properties_changed(d, change)

\* The alarm: the coroutines, the signal, the base unit's state changes and
\* its events.
EventChanges ==
  {[name |-> "state", new_value |-> v] : v \in {"Disarm", "Away"}}

EventNext ==
  \/ LifecycleNext
  \/ \E change \in EventChanges : baseunit_properties_changed(change)
  \/ \E contact_id \in ContactIds : baseunit_event(contact_id)

\* The commands: the coroutines, the signal, inbound command messages, the
\* base unit changing to Disarm and its alarm events.
CommandInputs ==
  { [topic |-> OperationModeSetTopic, payload |-> "Disarm"],
    [topic |-> OperationModeSetTopic, payload |-> "Bogus"],
    [topic |-> DatetimeSetTopic, payload |-> "not a date"] }

HubChanges == {[name |-> "state", new_value |-> "Disarm"]}

HubEvents ==
  {[event_qualifier |-> "Event", event_category |-> "Alarm",
    event_code |-> "Burglary"]}

HubNext ==
  \/ LifecycleNext
  \/ \E m \in CommandInputs : mqtt_on_message(m)
  \/ \E change \in HubChanges : baseunit_properties_changed(change)
  \/ \E contact_id \in HubEvents : baseunit_event(contact_id)

\* The Disarm command: the coroutines, the signal, the messages that ask
\* for Disarm, the base unit's alarm events, its change to Away, and the
\* tasks of the commands.
DisarmInputs == {[topic |-> OperationModeSetTopic, payload |-> "Disarm"]}
DisarmChanges == {[name |-> "state", new_value |-> "Away"]}

DisarmNext ==
  \/ LifecycleNext
  \/ \E m \in DisarmInputs : mqtt_on_message(m)
  \/ \E change \in DisarmChanges : baseunit_properties_changed(change)
  \/ \E contact_id \in HubEvents : baseunit_event(contact_id)
  \/ \E id \in 1..MaxMsgs : async_set_operation_mode(id, "Disarm")

\* The derived state and what leaves it alone: the router while it runs,
\* the commands, the base unit's changes of state and of another property,
\* its events, alarms and others, the broker's connects and disconnects
\* and a device's events.
FrameInputs ==
  { [topic |-> OperationModeSetTopic, payload |-> "Disarm"],
    [topic |-> ClearStatusTopic, payload |-> ""] }

FrameChanges ==
  { [name |-> "state", new_value |-> "Disarm"],
    [name |-> "state", new_value |-> "Away"],
    [name |-> "exit_delay", new_value |-> "15"] }

FrameEvents ==
  {contact_id \in ContactIds :
     /\ contact_id.event_code = "Burglary"
     /\ \/ contact_id.event_qualifier = "Event"
        \/ contact_id.event_qualifier = "Restore"
           /\ contact_id.event_category = "Alarm"}

FrameNext ==
  \/ async_start
  \/ async_loop_entry
  \/ async_loop_test
  \/ async_loop_create
  \/ get_task_step
  \/ async_loop_resume
  \/ async_loop_dispatch
  \/ async_loop_task_done
  \/ \E m \in FrameInputs : mqtt_on_message(m)
  \/ \E change \in FrameChanges : baseunit_properties_changed(change)
  \/ \E contact_id \in FrameEvents : baseunit_event(contact_id)
  \/ mqtt_on_connect(0)
  \/ mqtt_on_disconnect(1)
  \/ device_on_event(1, "Tamper")

\* The event loop runs a coroutine that can take a step, and a task or
\* callback that is ready.
LoopFairness ==
  /\ WF_vars(async_start)
  /\ WF_vars(async_loop_entry)
  /\ WF_vars(async_loop_test)
  /\ WF_vars(async_loop_create)
  /\ WF_vars(get_task_step)
  /\ WF_vars(async_loop_resume)
  /\ WF_vars(async_loop_dispatch)
  /\ WF_vars(async_loop_task_done)
  /\ WF_vars(async_loop_final)
  /\ WF_vars(async_loop_return)

Spec == Init /\ [][RouterNext]_vars
FairSpec == Spec /\ LoopFairness
DisarmSpec ==
  /\ Init /\ [][DisarmNext]_vars /\ LoopFairness
  /\ \A id \in 1..MaxMsgs : WF_vars(async_set_operation_mode(id, "Disarm"))
\* Time passes, and the event loop calls a timer that is due.
TimerFairness ==
  /\ WF_vars(Tick)
  /\ WF_vars(\E t \in timers : auto_reset(t))

OffSpec ==
  Init /\ [][OffNext]_vars /\ LoopFairness /\ TimerFairness
FrameSpec == Init /\ [][FrameNext]_vars
CommandSpec == Init /\ [][CommandNext]_vars /\ LoopFairness
TimerSpec == Init /\ [][TimerNext]_vars
CodeSpec == Init /\ [][CodeNext]_vars
FlagSpec == Init /\ [][FlagNext]_vars
IntervalSpec == IntervalInit /\ [][IntervalNext]_vars
StateSpec == Init /\ [][StateNext]_vars
ConnectSpec == ConfigInit /\ [][ConnectNext]_vars
OutageSpec == Init /\ [][OutageNext]_vars
BirthSpec == ConfigInit /\ [][BirthNext]_vars
RunSpec == ConfigInit /\ [][RunNext]_vars
TypeSpec == DiscoveryInit /\ [][TypeNext]_vars
DeviceSpec == DiscoveryInit /\ [][DeviceNext]_vars
EventSpec == Init /\ [][EventNext]_vars
HubSpec == Init /\ [][HubNext]_vars

\* --------------------------------------------------------------- claims
\* The router loop has left its while loop / async_loop has ended.
LeftLoop == pc \in {"final", "sleep", "done", "stopped", "raised"}
Ended == pc \in {"done", "stopped", "raised"}

DispatchedIds == {dispatched[i].id : i \in 1..Len(dispatched)}

\* C1: whenever async_loop has ended, it has published False, retained, on
\* <base topic>/is_connected, at whatever point the shutdown signal came.
C1_FinalPublishOnExit ==
  Ended => finalPubs = <<Pub(IsConnectedTopic, "False", TRUE)>>

\* C2: after signal_shutdown the router loop eventually leaves its while
\* loop, also when it was idle and no broker message ever arrives.
C2_ShutdownLeavesLoop == shutdown ~> LeftLoop

\* The loop was blocked on the empty queue when the signal came, no message
\* was ever enqueued, and it has left.
C2_Witness == LeftLoop /\ sigAt = "waiting" /\ nEnq = 0

\* C3: no failure raised while an item taken from the queue is handled ends
\* the router loop: every dispatch ends with the failure caught and the
\* loop going on.
C3_FailureNeverEndsLoop ==
  /\ \A i \in 1..Len(dispatched) : dispatched[i].outcome # "escaped"
  /\ pc \notin {"finally_raise", "raised"}

\* C4: messages are dispatched in the order in which _mqtt_on_message
\* enqueued them (ids count the enqueues), one at a time.
C4_FifoDispatch ==
  \A i, j \in 1..Len(dispatched) :
    (i < j /\ dispatched[i].id # 0 /\ dispatched[j].id # 0)
      => dispatched[i].id < dispatched[j].id

\* Two messages were enqueued and both reached their handlers.
C4_Witness ==
  \E i, j \in 1..Len(dispatched) :
    /\ i < j
    /\ dispatched[i].outcome \in {"handled", "raised"}
    /\ dispatched[j].outcome \in {"handled", "raised"}

\* C5: the enqueue never fails whatever the queue length, and while
\* shutdown is not requested every enqueued message is eventually
\* dispatched, and no message twice.
C5_EnqueuedIsDispatched ==
  /\ [](out # <<Raise("Full")>>)
  /\ [](\A i, j \in 1..Len(dispatched) :
          i # j => dispatched[i].id # dispatched[j].id)
  /\ \A n \in 1..MaxMsgs :
       [](nEnq >= n => <>(shutdown \/ n \in DispatchedIds))

\* Two messages were in the queue together, and every message enqueued was
\* dispatched with no shutdown requested.
C5_Witness ==
  /\ ~shutdown
  /\ nEnq >= 2
  /\ DispatchedIds = 1..nEnq
  /\ dispatched[1].id = 1 /\ dispatched[2].id = 2
  /\ unfinished = 0

\* C6, as claimed: when the loop has left, every real message that was in
\* the queue when shutdown was requested has been dispatched.
C6_DrainBeforeExit == LeftLoop => atShutdown \subseteq DispatchedIds

\* C6, amended: shutdown stops the loop without draining the queue: after
\* shutdown is requested at most one more item is dispatched.
C6_StopWithoutDrain ==
  Cardinality({i \in 1..Len(dispatched) : dispatched[i].after_shutdown}) <= 1

\* The loop has left and a real message queued at the request is still in
\* the queue, undispatched.
C6_Witness ==
  /\ LeftLoop
  /\ \E i \in 1..Len(pending_messages) :
       /\ pending_messages[i].id \in atShutdown
       /\ pending_messages[i].id \notin DispatchedIds

\* C7: at most one auto-reset timer is pending per device id.
C7_OneTimerPerDevice ==
  \A d \in DeviceIds : Cardinality({t \in timers : t.dev = d}) <= 1

\* A Trigger replaced the pending timer of device 1, whose new timer is
\* pending.
C7_Witness == rearmed[1] /\ \E t \in timers : t.dev = 1

\* C8: when a Trigger of a device replaced its pending timer, there is
\* never more than one auto-reset Off after it, the Off comes no earlier
\* than one interval after that Trigger, and until async_stop either the
\* timer armed by that Trigger is pending, with what is left of the
\* interval, or exactly one Off was published.
C8_RearmRestartsCountdown ==
  \A d \in ConfiguredIds :
    rearmed[d] =>
      /\ nOff[d] <= 1
      /\ nOff[d] = 1 => sinceTrigger[d] = Interval(d)
      /\ pc # "stopped" =>
           \/ /\ nOff[d] = 0
              /\ \E t \in timers :
                   /\ t.dev = d
                   /\ t.id = auto_reset_handles[d]
                   /\ t.remaining = Interval(d) - sinceTrigger[d]
           \/ /\ nOff[d] = 1
              /\ ~\E t \in timers : t.dev = d

\* The second Trigger of device 1 came while its first timer was pending,
\* and the one Off was published.
C8_Witness == rearmed[1] /\ nOff[1] = 1

\* C9, as claimed: no auto-reset Off is published once the shutdown flag is
\* set.
C9_NoResetAfterShutdown ==
  [][(\E d \in DeviceIds : nOff'[d] > nOff[d]) => ~shutdown]_vars

\* C9, amended: once async_stop has run, no auto-reset timer is pending.
C9_NoTimerAfterStop == pc = "stopped" => timers = {}

\* async_stop ran while the timer of device 1 was pending.
C9_Witness == pc = "stopped" /\ rearmed[1] /\ nOff[1] = 0

\* The table of the claim.
HaTable(value) ==
  CASE value \in {"Disarm", "Monitor"} -> <<"disarmed">>
    [] value = "Home" -> <<"armed_home">>
    [] value = "Away" -> <<"armed_away">>
    [] value \in {"AwayExitDelay", "AwayEntryDelay"} -> <<"pending">>
    [] OTHER -> <<>>

RECURSIVE HaImage(_)
HaImage(values) ==
  IF values = <<>> THEN <<>>
  ELSE HaTable(Head(values)) \o HaImage(Tail(values))

\* C10: the publishes on ha_state are the image, in order, of the base
\* unit's state changes under the table, a state outside the table
\* publishing nothing and leaving the derived state as it was.
C10_HaStateIsImage ==
  /\ haLog = HaImage(stateLog)
  /\ ha_state = IF haLog = <<>> THEN "None" ELSE haLog[Len(haLog)]
  /\ state = IF stateLog = <<>> THEN "None" ELSE stateLog[Len(stateLog)]

\* Disarm, Home, AwayExitDelay gave disarmed, armed_home, pending.
C10_Witness ==
  /\ stateLog = <<"Disarm", "Home", "AwayExitDelay">>
  /\ haLog = <<"disarmed", "armed_home", "pending">>
  /\ out = <<Pub(BaseTopic, "AwayExitDelay", TRUE),
             Pub(HaStateTopic, "pending", TRUE)>>

\* C11: a base unit event with qualifier Event and category Alarm sets the
\* derived state to triggered and publishes triggered, retained, on
\* <base topic>/ha_state, whatever the raw and the derived state were; an
\* event with another qualifier or category leaves the derived state and
\* publishes nothing on that topic.
C11_AlarmEventForcesTriggered ==
  [][nEv' = nEv + 1 =>
       \E q \in {"Event", "Restore", "Repeat"}, c \in {"Alarm", "Trouble"},
          code \in {"", "Burglary"} :
         /\ out'[1] = Pub(BaseTopic \o "/event",
                          q \o "," \o c \o "," \o code, FALSE)
         /\ state' = state
         /\ IF q = "Event" /\ c = "Alarm"
            THEN /\ ha_state' = "triggered"
                 /\ out'[Len(out')] = Pub(HaStateTopic, "triggered", TRUE)
            ELSE /\ ha_state' = ha_state
                 /\ HaPayloads(out') = <<>>]_vars

\* An alarm event came while the raw state was Away and the derived state
\* armed_away, and forced triggered.
C11_Witness ==
  /\ nEv >= 1
  /\ state = "Away"
  /\ stateLog = <<"Away">>
  /\ ha_state = STATE_TRIGGERED
  /\ out = <<Pub(BaseTopic \o "/event", "Event,Alarm,Burglary", FALSE),
             Pub(BaseTopic \o "/event_code", "Burglary", FALSE),
             Pub(HaStateTopic, "triggered", TRUE)>>

\* The router loop hands the message it took to its handler.
Dispatching(topic) ==
  /\ pc = "dispatch"
  /\ ~ha_run.active
  /\ message.topic = topic
  /\ dispatched' # dispatched

C16_UnparseableIgnored ==
  [][(\/ /\ Dispatching(OperationModeSetTopic)
          /\ message.payload \notin {"Disarm", "Home", "Away", "Monitor"}
      \/ /\ Dispatching(DatetimeSetTopic)
          /\ message.payload \notin {"", "2020-01-01 00:00:00"}) =>
       /\ out' = <<>>
       /\ state' = state
       /\ ha_state' = ha_state
       /\ pc' = "finally"]_vars

\* A datetime payload that is no timestamp was handled while the derived
\* state was triggered, and the loop took the next message.
C16_Witness ==
  /\ Len(dispatched) = 2
  /\ dispatched[1].outcome = "raised"
  /\ dispatched[2].outcome = "handled"
  /\ ha_state = STATE_TRIGGERED
  /\ ~shutdown

\* A connection attempt was accepted.
Accepted == link = "down" /\ link' = "up"

\* C13, as claimed: with a discovery prefix configured, every accepted
\* reconnect republishes the discovery documents, the base unit's first.
C13_ReconnectRepublishesDiscovery ==
  [][(Accepted /\ mqtt_was_connected /\ config.discovery_prefix # "") =>
       \E i \in 1..Len(out') :
         out'[i] = Pub("homeassistant/alarm_control_panel/lifesos_baseunit/config",
                       "lifesos_baseunit", FALSE)]_vars

\* The topics of the registry under the configuration.
RegistryTopics ==
  {ClearStatusTopic, DatetimeSetTopic, OperationModeSetTopic}
    \cup (IF config.birth_topic # "" THEN {config.birth_topic} ELSE {})

\* C14: every accepted connect, the first and each reconnect, publishes
\* first, retained, on <base topic>/is_connected the adapter's connectivity
\* as it is at that moment, and then subscribes once to every topic of the
\* registry.
C14_ConnectPublishesThenSubscribes ==
  [][Accepted =>
       /\ out'[1] = Pub(IsConnectedTopic,
                        IF is_connected THEN "True" ELSE "False", TRUE)
       /\ Len(out') = 1 + Cardinality(RegistryTopics)
       /\ \A i \in 2..Len(out') : out'[i].kind = "command"
                                   /\ out'[i].topic = "subscribe"
       /\ {out'[i].payload : i \in 2..Len(out')} = RegistryTopics]_vars

\* A reconnect after an outage, the base unit not connected: False was
\* published, and the four topics of a registry with a birth topic were
\* subscribed to.
C14_Witness ==
  /\ link = "up"
  /\ mqtt_last_disconnection >= 0
  /\ mqtt_last_connection > mqtt_last_disconnection
  /\ ~is_connected
  /\ runLog.end = "completed"
  /\ Len(out) = 5
  /\ out[1] = Pub(IsConnectedTopic, "False", TRUE)
  /\ out[5] = Cmd("subscribe", BirthTopic)

\* C15: a callback of a device whose id has no entry in the configured
\* devices (an event with any code, a change of any property, the device
\* being added) makes no publish, and no call at all, and leaves the
\* auto-reset timers and their table as they were.
C15_UnconfiguredDeviceIsSilent ==
  [][(acted'.name # "none" /\ acted'.device \notin {1, 2}) =>
       /\ out' = <<>>
       /\ timers' = timers
       /\ auto_reset_handles' = auto_reset_handles]_vars

\* Device 3, which has no entry, reported a change while discovery is
\* configured, device 1 is known and its timer is armed.
C15_Witness ==
  /\ acted = Acted("device_on_properties_changed", 3)
  /\ devices[3] = "DoorMagnet"
  /\ devices[1] = "PIRSensor"
  /\ config.discovery_prefix # ""
  /\ auto_reset_handles[1] # 0
  /\ out = <<>>

\* C17: with a birth topic configured, handling a message of that topic
\* whose payload is the birth payload calls _publish_ha_config; with any
\* other payload, the empty one included, it publishes nothing and starts
\* no discovery run.
C17_BirthPayloadTriggersDiscovery ==
  [][(Dispatching(BirthTopic) /\ config.birth_topic = BirthTopic) =>
       IF message.payload = "online"
       THEN /\ runLog'.trigger = "on_message"
            /\ runLog'.end # "none"
            /\ runLog'.devices = devices
            /\ out' = runLog'.docs
       ELSE /\ out' = <<>>
            /\ runLog' = runLog
            /\ ha_run' = ha_run]_vars

\* The birth payload was handled with device 1 known: the run published
\* the base unit's document and the three of device 1.
C17_Witness ==
  /\ runLog.trigger = "on_message"
  /\ runLog.end = "completed"
  /\ Len(runLog.docs) = 4
  /\ pc = "finally"
  /\ message.payload = "online"

\* C18, as claimed: a discovery run never fails because a device_info
\* block is absent.
C18_DeviceInfoOptional == runLog.end # "raised"

\* The documents, as published.
BaseunitDoc ==
  Pub("homeassistant/alarm_control_panel/lifesos_baseunit/config",
      "lifesos_baseunit", FALSE)
DeviceDoc(id) ==
  Pub("homeassistant/binary_sensor/lifesos_" \o id \o "/config",
      "lifesos_" \o id, FALSE)
RssiDoc(id) ==
  Pub("homeassistant/sensor/lifesos_" \o id \o "_rssi/config",
      "lifesos_" \o id \o "_rssi", FALSE)
BatteryDoc(id) ==
  Pub("homeassistant/binary_sensor/lifesos_" \o id \o "_battery/config",
      "lifesos_" \o id \o "_battery", FALSE)

\* What the claim has a run publish for the devices known at its start.
ClaimedDocsOf(known, d, id) ==
  IF known[d] = "absent" THEN <<>>
  ELSE <<DeviceDoc(id), RssiDoc(id), BatteryDoc(id)>>
ClaimedDocs(known) ==
  <<BaseunitDoc>> \o ClaimedDocsOf(known, 1, "000001")
                 \o ClaimedDocsOf(known, 2, "000002")

\* C19, as claimed: a run that went through published the base unit's
\* document and then the device, RSSI and battery documents of every
\* configured device the adapter knows.
C19_AllThreeDocuments ==
  runLog.end = "completed" => runLog.docs = ClaimedDocs(runLog.devices)

\* What a run publishes: the device document only for a smoke detector, a
\* door magnet or a PIR sensor.
ActualDocsOf(known, d, id) ==
  IF known[d] = "absent" THEN <<>>
  ELSE (IF known[d] \in {"SmokeDetector", "DoorMagnet", "PIRSensor"}
        THEN <<DeviceDoc(id)>> ELSE <<>>) \o <<RssiDoc(id), BatteryDoc(id)>>
ActualDocs(known) ==
  <<BaseunitDoc>> \o ActualDocsOf(known, 1, "000001")
                 \o ActualDocsOf(known, 2, "000002")

\* C19, amended: a run that went through published the base unit's
\* document first and then, in the order of the configuration, for each
\* configured device the adapter knows its device document if its type is
\* smoke detector, door magnet or PIR sensor, and its RSSI and battery
\* documents whatever its type; a run cut short published a prefix of
\* these; with no discovery prefix a run publishes nothing.
C19_DiscoveryDocuments ==
  /\ runLog.end = "completed" => runLog.docs = ActualDocs(runLog.devices)
  /\ runLog.end \in {"running", "shutdown", "raised"} =>
       /\ Len(runLog.docs) <= Len(ActualDocs(runLog.devices))
       /\ runLog.docs =
            SubSeq(ActualDocs(runLog.devices), 1, Len(runLog.docs))
  /\ runLog.end = "disabled" <=>
       (runLog.trigger # "none" /\ config.discovery_prefix = "")
  /\ runLog.end \in {"disabled", "none"} => runLog.docs = <<>>

\* A run went through with device 1 a PIR sensor and device 2 a remote
\* controller: six documents, none for device 2 as a device.
C19_Witness ==
  /\ runLog.end = "completed"
  /\ runLog.devices[1] = "PIRSensor"
  /\ runLog.devices[2] = "RemoteController"
  /\ runLog.docs = <<BaseunitDoc, DeviceDoc("000001"), RssiDoc("000001"),
                     BatteryDoc("000001"), RssiDoc("000002"),
                     BatteryDoc("000002")>>

\* C20: an iteration of the discovery run that finds the shutdown flag set
\* publishes nothing and ends the run: no document for that device or a
\* later one.
C20_ShutdownEndsDiscovery ==
  [][(ha_run.active /\ ha_run' # ha_run /\ shutdown) =>
       /\ out' = <<>>
       /\ ~ha_run'.active
       /\ runLog'.docs = runLog.docs
       /\ runLog'.end = "shutdown"]_vars

\* The signal came between the two devices of a run: device 1 has its
\* documents, device 2, which the adapter knows, has none.
C20_Witness ==
  /\ runLog.end = "shutdown"
  /\ runLog.devices[2] = "SmokeDetector"
  /\ runLog.docs = <<BaseunitDoc, DeviceDoc("000001"), RssiDoc("000001"),
                     BatteryDoc("000001")>>

\* The documents of device 2 that a discovery run published.
DocsOfDevice2 ==
  {runLog.docs[i] : i \in 1..Len(runLog.docs)} \cap
    {DeviceDoc("000002"), RssiDoc("000002"), BatteryDoc("000002")}

ClaimedDelay(d) ==
  IF config.auto_reset_interval[d] # <<>>
  THEN config.auto_reset_interval[d][1] ELSE 30

\* C22, as claimed: a Trigger of a configured device publishes On, retained,
\* on the device's topic and arms the one timer of the device with the
\* device's configured auto_reset_interval, whatever its value, or with 30
\* seconds when it configures none.
C22_OffAfterConfiguredInterval ==
  [][\A d \in ConfiguredIds :
       (acted' = Acted("device_on_event", d) /\ nTrig' = nTrig + 1) =>
         /\ out'[Len(out')] = Pub(devices_config[d].topic, "On", TRUE)
         /\ \E t \in timers' :
              /\ t.dev = d
              /\ t.id = auto_reset_handles'[d]
              /\ t.remaining = ClaimedDelay(d)]_vars

CoreState ==
  <<mqtt_was_connected, mqtt_last_connection, mqtt_last_disconnection,
    auto_reset_handles, state, ha_state>>

\* C24, as claimed: the lifecycle bookkeeping, the auto-reset table and the
\* translation state are written by the core context only, and a step of
\* the broker thread does nothing but enqueue an inbound message.
C24_SingleWriter ==
  [][/\ CoreState' # CoreState => thread' = "core"
     /\ thread' = "broker" =>
          /\ out' = <<>>
          /\ Len(pending_messages') = Len(pending_messages) + 1]_vars

\* C25: a handler that issues an adapter command returns with the command
\* still to run: while shutdown is not requested every enqueued message is
\* eventually dispatched, also when the commands of earlier messages have
\* not completed or never complete, and a dispatch completes no command.
C25_CommandsDoNotBlockRouter ==
  /\ \A n \in 1..MaxMsgs :
       [](nEnq >= n => <>(shutdown \/ n \in DispatchedIds))
  /\ [][(dispatched' # dispatched /\ CreatesTask(out')) =>
          /\ message.id \in commands'
          /\ commands \subseteq commands']_vars

\* The second message was dispatched, and the loop went on, while the
\* commands of both were still to complete.
C25_Witness ==
  /\ Len(dispatched) = 2
  /\ dispatched[1].outcome = "handled"
  /\ commands = {1, 2}
  /\ pc = "await"

\* C26, as claimed: the None item of signal_shutdown never reaches the try
\* block that looks the message up and calls its handler, and no exception
\* of it leaves the router loop.
C26_SentinelIsNoMessage ==
  /\ NoneMsg.id \notin DispatchedIds
  /\ out # <<Raise("AttributeError")>>

\* The publishes of the claim for an event with this code under the topic.
ClaimedEventPublishes(topic, code) ==
  <<Pub(topic \o "/event_code", code, FALSE)>> \o
  (IF code \in {"BatteryLow", "PowerOnReset"}
   THEN <<Pub(topic \o "/battery", code, TRUE)>> ELSE <<>>) \o
  (IF code = "Tamper"
   THEN <<Pub(topic \o "/tamper", "True", FALSE)>> ELSE <<>>) \o
  (IF code = "Trigger" THEN <<Pub(topic, "On", TRUE)>> ELSE <<>>)

\* C27: every event of a configured device publishes the event code on
\* <topic>/event_code, not retained, first, and then only: the code,
\* retained, on <topic>/battery for BatteryLow and PowerOnReset, True, not
\* retained, on <topic>/tamper for Tamper, On, retained, on <topic> for
\* Trigger, which also replaces the device's timer by a new one; an event
\* with another code leaves the timers and the handle table as they were.
C27_DeviceEventPublishes ==
  [][\A d \in ConfiguredIds :
       acted' = Acted("device_on_event", d) =>
         LET topic == IF d = 1 THEN "home/pir" ELSE "home/smoke"
             code == out'[1].payload
         IN /\ out' = ClaimedEventPublishes(topic, code)
            /\ IF code = "Trigger"
               THEN /\ auto_reset_handles'[d] # auto_reset_handles[d]
                    /\ \A t \in timers' :
                         t.dev = d <=> t.id = auto_reset_handles'[d]
                    /\ \A t \in timers' : t.dev = d => t \notin timers
                    /\ \E t \in timers' : t.dev = d
                    /\ \A t \in timers : t.dev # d => t \in timers'
               ELSE /\ timers' = timers
                    /\ auto_reset_handles' = auto_reset_handles]_vars

\* Device 1 reported PowerOnReset while its timer was pending: two
\* publishes, and the timer still pending.
C27_Witness ==
  /\ acted = Acted("device_on_event", 1)
  /\ out = <<Pub("home/pir/event_code", "PowerOnReset", FALSE),
             Pub("home/pir/battery", "PowerOnReset", TRUE)>>
  /\ \E t \in timers : t.dev = 1 /\ t.id = auto_reset_handles[1]

\* C28: a change of a flag-set property (characteristics, enable_status,
\* switches, special_status) of a configured device makes one retained
\* publish per flag of the property, on <topic>/<property>/<flag name>:
\* True when the raw value has the flag's bit, False when not.  The two
\* flags of a property are bit 1 and bit 2.
C28_OnePublishPerFlag ==
  [][\A d \in ConfiguredIds :
       (acted' = Acted("device_on_properties_changed", d)
          /\ reported'.name \in {"characteristics", "enable_status",
                                 "switches", "special_status"}) =>
         LET topic == (IF d = 1 THEN "home/pir" ELSE "home/smoke")
                        \o "/" \o reported'.name \o "/" \o reported'.name
             raw == reported'.new_value
         IN out' = <<Pub(topic \o "_a",
                         IF raw \in {1, 3, 5} THEN "True" ELSE "False",
                         TRUE),
                     Pub(topic \o "_b",
                         IF raw \in {2, 3} THEN "True" ELSE "False",
                         TRUE)>>]_vars

\* Device 1 reported switches = 2: False for the first flag, True for the
\* second.
C28_Witness ==
  /\ acted = Acted("device_on_properties_changed", 1)
  /\ reported = [name |-> "switches", new_value |-> 2]
  /\ out = <<Pub("home/pir/switches/switches_a", "False", TRUE),
             Pub("home/pir/switches/switches_b", "True", TRUE)>>

\* C29: after async_stop has run the auto-reset table has no entry and no
\* auto-reset timer is pending, so that no timer outstanding at async_stop
\* publishes Off afterwards.
C29_StopEmptiesTable ==
  pc = "stopped" =>
    /\ \A d \in DeviceIds : auto_reset_handles[d] = 0
    /\ \A d \in DeviceIds : ~\E t \in timers : t.dev = d

\* async_stop ran while the timers of both configured devices were
\* outstanding, some time after their Triggers.
C29_Witness ==
  /\ pc = "stopped"
  /\ nTrig = 2
  /\ \A d \in ConfiguredIds :
       nOff[d] = 0 /\ sinceTrigger[d] > 0 /\ ~rearmed[d]

\* C30, as claimed: once the loop has made its final publish of False on
\* <base topic>/is_connected, no step publishes True on that topic: no
\* connect reported by the broker thread and no property change reported
\* by the adapter.
C30_LastConnectivityIsFalse ==
  [][finalPubs # <<>> =>
       \A i \in 1..Len(out') :
         out'[i] # Pub(IsConnectedTopic, "True", TRUE)]_vars

\* C31, as claimed: whenever a message asking for Disarm is handled with
\* the derived state triggered, the derived state does not stay triggered
\* for ever: it eventually is disarmed, or has left triggered by another
\* state change, unless shutdown is requested.
C31_DisarmLeavesTriggered ==
  (/\ pc = "dispatch"
   /\ message.topic = OperationModeSetTopic
   /\ message.payload = "Disarm"
   /\ ha_state = STATE_TRIGGERED)
    ~> (ha_state # STATE_TRIGGERED \/ shutdown)

\* C32: every On published on the topic of device 1 by a Trigger event is
\* eventually followed by an Off published on that topic by the auto-reset
\* timer, whatever Triggers follow, unless shutdown is requested.
C32_OnIsFollowedByOff ==
  (/\ acted = Acted("device_on_event", 1)
   /\ out # <<>>
   /\ out[Len(out)] = Pub("home/pir", "On", TRUE))
    ~> (out = <<Pub("home/pir", "Off", TRUE)>> \/ shutdown)

\* Three Triggers of device 1, each replacing the pending timer, and then
\* the Off, with no shutdown requested.
C32_Witness ==
  /\ ~shutdown
  /\ nTrig = 3
  /\ rearmed[1]
  /\ out = <<Pub("home/pir", "Off", TRUE)>>

\* C33: the entries of the auto-reset table and the pending timers
\* correspond one to one: the handle of every entry is a pending timer of
\* the entry's device, every pending timer is the handle recorded for its
\* device, every key is a configured device with a topic, and no firing
\* timer fails to find its entry (no KeyError).
C33_TableMatchesTimers ==
  /\ \A d \in DeviceIds :
       auto_reset_handles[d] # 0 =>
         /\ d \in {1, 2}
         /\ Cardinality({t \in timers : t.id = auto_reset_handles[d]}) = 1
         /\ \A t \in timers : t.id = auto_reset_handles[d] => t.dev = d
  /\ \A t \in timers : auto_reset_handles[t.dev] = t.id
  /\ \A i \in 1..Len(out) : out[i] # Raise("KeyError")

\* The timer of device 1 fired and removed its entry while the timer of
\* device 2 was pending under its own entry.
C33_Witness ==
  /\ nOff[1] = 1
  /\ auto_reset_handles[1] = 0
  /\ auto_reset_handles[2] # 0
  /\ \E t \in timers : t.dev = 2 /\ t.id = auto_reset_handles[2]
  /\ out = <<Pub("home/pir", "Off", TRUE)>>

\* The values of the base unit's state that the derivation maps, and the
\* step's publishes on <base topic>/ha_state.
DerivedFrom ==
  {"Disarm", "Monitor", "Home", "Away", "AwayExitDelay", "AwayEntryDelay"}

HaPublishes(calls) ==
  {i \in 1..Len(calls) :
     calls[i].kind = "publish" /\ calls[i].topic = HaStateTopic}

C35_RejectedAndSolicited ==
  [][/\ (last_result_code' \notin {-1, 0} /\ link = "down") =>
          /\ UNCHANGED <<mqtt_was_connected, mqtt_last_connection,
                         mqtt_last_disconnection, outage, link>>
          /\ out' = <<>>
     /\ (last_result_code' = 0 /\ link = "up") =>
          mqtt_last_disconnection' = mqtt_last_disconnection]_vars

\* The connection was lost, came back and was closed by the client at a
\* later time, which left the time of the loss in place; the broker has now
\* refused a connect.
C35_Witness ==
  /\ last_result_code = 5
  /\ link = "down"
  /\ mqtt_was_connected
  /\ mqtt_last_disconnection # -1
  /\ droppedAt > mqtt_last_disconnection
  /\ out = <<>>
====
